---- MODULE Spec2Model ----
(***************************************************************************)
(* eBay -> Shopify importer: the import route (POST /api/import), the      *)
(* history route (GET /api/history), the identifier helpers of lib/ebay,   *)
(* the reconciler of lib/map and the Shopify wrappers of lib/shopify.      *)
(*                                                                         *)
(* Text that the code inspects (ids, SKUs, option names, URL paths) is a   *)
(* sequence of one-character strings; the empty sequence is JavaScript's   *)
(* falsy string / undefined.  Text that the code only copies or compares   *)
(* (titles, image URLs, error texts) is a TLA+ string.                     *)
(***************************************************************************)
EXTENDS Integers, Sequences, FiniteSets, TLC

VARIABLES
    importedCache,  \* route.ts:34  the process-wide history, newest first
    h,              \* one record of locals per POST handler in flight
    inbox,          \* the requests that are still to arrive
    mode,           \* how the two remote services may answer
    shop,           \* the number of products the platform has created
    recorded,       \* every result recorded so far, oldest first (history of the run)
    lastGet,        \* the body of the last GET /api/history response
    probe           \* a library function called on its own: its argument and result

vars == <<importedCache, h, inbox, mode, shop, recorded, lastGet, probe>>

(***************************************************************************)
(* Program constants.                                                      *)
(***************************************************************************)
HISTORY_LIMIT == 50
MEDIA_UPLOAD_LIMIT == 100
MAX_SHOPIFY_VARIANTS == 100
MinTailDigits == 9
MinGroupDigits == 6
OptionNameLimit == 30
OptionValueLimit == 50
OptionLimit == 3

(***************************************************************************)
(* Bounds of the model.                                                    *)
(***************************************************************************)
MaxImports == 3
MaxNullBodies == 1
HistImports == 60
ConcImports == 52
MaxVariants == 150

Procs == {1, 2}

None == <<>>
Undefined == [kind |-> "undefined"]
Null == [kind |-> "null"]

Digit == {"0", "1", "2", "3", "4", "5", "6", "7", "8", "9"}

Min(a, b) == IF a < b THEN a ELSE b

\* Array.prototype.filter(Boolean) on a list of texts / Array.from(new Set(list))
FilterTruthy(s) == SelectSeq(s, LAMBDA x : x # None)

\* The element of a one-element set: in The({e : v \in {x}}) the value of x
\* is computed once, however often e uses it.
The(S) == CHOOSE r \in S : TRUE

InSeq(x, s) == \E i \in 1..Len(s) : s[i] = x

Dedup(s) ==
    LET firsts == SelectSeq([i \in 1..Len(s) |-> i],
                            LAMBDA i : \A j \in 1..(i - 1) : s[j] # s[i])
    IN [k \in 1..Len(firsts) |-> s[firsts[k]]]

(***************************************************************************)
(* lib/ebay: identifier helpers.                                           *)
(***************************************************************************)
\* The length of the run of digits of p that starts at position i.
RECURSIVE DigitRun(_, _)
DigitRun(p, i) ==
    IF i > Len(p) \/ p[i] \notin Digit THEN 0 ELSE 1 + DigitRun(p, i + 1)

\* The length of the run of digits of p that ends at position i.
RECURSIVE DigitRunBack(_, _)
DigitRunBack(p, i) ==
    IF i < 1 \/ p[i] \notin Digit THEN 0 ELSE 1 + DigitRunBack(p, i - 1)

\* The length of the run of digits that ends p.
TrailingDigits(p) == DigitRunBack(p, Len(p))

ItmPrefix == <<"/", "i", "t", "m", "/">>

\* The positions of p where /\/itm\/(\d{9,})/ matches.
ItmMatches(p) ==
    {i \in 1..Len(p) :
        /\ i + Len(ItmPrefix) - 1 <= Len(p)
        /\ SubSeq(p, i, i + Len(ItmPrefix) - 1) = ItmPrefix
        /\ DigitRun(p, i + Len(ItmPrefix)) >= MinTailDigits}

SetMin(S) == CHOOSE x \in S : \A y \in S : x <= y

\* A parseNumericTail without the fallback of lines 433-435.
parseNumericTailOnly(url) ==
    IF ~url.abs THEN None
    ELSE LET p == url.pathname
             k == TrailingDigits(p)
         IN IF k >= MinTailDigits THEN SubSeq(p, Len(p) - k + 1, Len(p)) ELSE None

parseNumericTail(url) ==
    IF ~url.abs THEN None
    ELSE LET p == url.pathname
             k == TrailingDigits(p)
         IN IF k >= MinTailDigits THEN SubSeq(p, Len(p) - k + 1, Len(p))
            ELSE IF ItmMatches(p) # {}
                 THEN LET i == SetMin(ItmMatches(p)) + Len(ItmPrefix)
                      IN SubSeq(p, i, i + DigitRun(p, i) - 1)
                 ELSE None

\* An upstream error text: what the code copies, and the digits of an
\* item_group_id=<digits> token it may embed.
Err(text, token) == [text |-> text, token |-> token]
Success == Err("success", None)

parseGroupIdFromErrorText(msg) ==
    IF Len(msg.token) >= MinGroupDigits THEN msg.token ELSE None

(***************************************************************************)
(* lib/map: the reconciler.                                                *)
(***************************************************************************)
DEFAULT_OPTION_NAME == <<"T", "i", "t", "l", "e">>
DEFAULT_OPTION_VALUE == <<"D", "e", "f", "a", "u", "l", "t", " ", "T", "i", "t", "l", "e">>
DefaultFallback == <<"D", "e", "f", "a", "u", "l", "t">>

fallbackOptionValue(optionName) ==
    IF optionName = DEFAULT_OPTION_NAME THEN DEFAULT_OPTION_VALUE ELSE DefaultFallback

Upper == <<"A", "B", "C", "D", "E", "F", "G", "H", "I", "J", "K", "L", "M",
           "N", "O", "P", "Q", "R", "S", "T", "U", "V", "W", "X", "Y", "Z">>
Lower == <<"a", "b", "c", "d", "e", "f", "g", "h", "i", "j", "k", "l", "m",
           "n", "o", "p", "q", "r", "s", "t", "u", "v", "w", "x", "y", "z">>
WhiteSpace == {" ", "\t", "\n", "\r"}

LowerChar(c) ==
    IF \E i \in 1..Len(Upper) : Upper[i] = c
    THEN Lower[CHOOSE i \in 1..Len(Upper) : Upper[i] = c]
    ELSE c

toLowerCase(s) == [i \in 1..Len(s) |-> LowerChar(s[i])]

RECURSIVE trimStart(_)
trimStart(s) ==
    IF s # <<>> /\ Head(s) \in WhiteSpace THEN trimStart(Tail(s)) ELSE s

RECURSIVE trimEnd(_)
trimEnd(s) ==
    IF s # <<>> /\ s[Len(s)] \in WhiteSpace THEN trimEnd(SubSeq(s, 1, Len(s) - 1)) ELSE s

trim(s) == trimEnd(trimStart(s))

normalizeKeyPart(value) == toLowerCase(trim(value))

\* parts.join(sep)
RECURSIVE JoinWith(_, _)
JoinWith(parts, sep) ==
    IF parts = <<>> THEN <<>>
    ELSE IF Len(parts) = 1 THEN parts[1]
    ELSE parts[1] \o sep \o JoinWith(Tail(parts), sep)

\* optionValues: a list of [optionName, name]; sku: a text, empty when absent.
buildVariantKey(optionValues, sku) ==
    LET part(opt) ==
            normalizeKeyPart(IF opt.optionName # None THEN opt.optionName
                             ELSE DEFAULT_OPTION_NAME)
            \o <<"=">> \o normalizeKeyPart(opt.name)
        parts == [i \in 1..Len(optionValues) |-> part(optionValues[i])]
        all == IF sku # None
               THEN Append(parts, <<"s", "k", "u", "=">> \o normalizeKeyPart(sku))
               ELSE parts
    IN JoinWith(all, <<"|">>)

\* options: a list of [name, value] pairs (a Record<string, string>).
HasOption(options, name) == \E i \in 1..Len(options) : options[i].name = name
OptionOf(options, name) ==
    options[CHOOSE i \in 1..Len(options) : options[i].name = name].value

\* The images of one variant: imageUrls, then imageUrl, truthy ones, no repeats.
ImageSources(variant) ==
    Dedup(SelectSeq(Append(variant.imageUrls, variant.imageUrl), LAMBDA u : u # ""))

\* Lines 72-84: the distinct values the variants give the option `name`.
OptionValuesSeen(variants, name) ==
    Dedup(FilterTruthy([i \in 1..Len(variants) |->
                           IF HasOption(variants[i].options, name)
                           THEN OptionOf(variants[i].options, name) ELSE None]))

InferredOption(name, position, seen) ==
    [name |-> name, position |-> position,
     values |-> IF seen = <<>> THEN <<fallbackOptionValue(name)>> ELSE seen]

inferredOptions(singleOrGroup) ==
    [i \in 1..Len(singleOrGroup.optionsOrder) |->
        InferredOption(singleOrGroup.optionsOrder[i], i,
                       OptionValuesSeen(singleOrGroup.variants, singleOrGroup.optionsOrder[i]))]

\* Lines 86-93.
productOptionsOf(inferred) ==
    IF Len(inferred) > 0 THEN inferred
    ELSE <<[name |-> DEFAULT_OPTION_NAME, position |-> 1,
            values |-> <<DEFAULT_OPTION_VALUE>>]>>

\* Lines 100-105.
optionValuesOf(variant, hasDefinedOptions, productOptions) ==
    IF hasDefinedOptions
    THEN [i \in 1..Len(productOptions) |->
            [optionName |-> productOptions[i].name,
             name |-> IF HasOption(variant.options, productOptions[i].name)
                      THEN OptionOf(variant.options, productOptions[i].name)
                      ELSE fallbackOptionValue(productOptions[i].name)]]
    ELSE <<[optionName |-> DEFAULT_OPTION_NAME, name |-> DEFAULT_OPTION_VALUE]>>

\* Lines 107-109: the variants that survive seenVariantKeys, by position.
FirstOfKey(keys) ==
    SelectSeq([i \in 1..Len(keys) |-> i],
              LAMBDA i : \A j \in 1..(i - 1) : keys[j] # keys[i])

\* Lines 111-132.
RawVariantPayload(variant, key, optionValues, imageSources) ==
    [key |-> key,
     imageUrls |-> imageSources,
     input |-> [price |-> variant.price,
                sku |-> variant.sku,
                optionValues |-> optionValues,
                mediaSrc |-> IF imageSources # <<>> THEN <<imageSources[1]>> ELSE <<>>]]

\* Lines 135-150.
PlatformPayload(singleOrGroup, productOptions, rawVariantPayloads, kept) ==
    [productInput |-> [title |-> singleOrGroup.title, productOptions |-> productOptions],
     variantInputs |-> [i \in 1..kept |-> rawVariantPayloads[i].input],
     variantAssets |-> [i \in 1..kept |->
                           [key |-> rawVariantPayloads[i].key,
                            imageUrls |-> rawVariantPayloads[i].imageUrls]],
     meta |-> IF Len(rawVariantPayloads) - kept > 0
              THEN [droppedVariants |-> Len(rawVariantPayloads) - kept]
              ELSE Undefined]

\* A builder that keeps every variant.
BuildFromKeysUncapped(singleOrGroup, productOptions, optionValues, keys, first) ==
    PlatformPayload(
        singleOrGroup, productOptions,
        [i \in 1..Len(first) |->
            RawVariantPayload(singleOrGroup.variants[first[i]], keys[first[i]],
                              optionValues[first[i]],
                              ImageSources(singleOrGroup.variants[first[i]]))],
        Len(first))

BuildFromKeys(singleOrGroup, productOptions, optionValues, keys, first) ==
    The({PlatformPayload(singleOrGroup, productOptions, rawVariantPayloads,
                         Min(Len(first), MAX_SHOPIFY_VARIANTS)) :
         rawVariantPayloads \in
            {[i \in 1..Len(first) |->
                RawVariantPayload(singleOrGroup.variants[first[i]], keys[first[i]],
                                  optionValues[first[i]],
                                  ImageSources(singleOrGroup.variants[first[i]]))]}})

BuildFromValues(singleOrGroup, productOptions, optionValues, keys) ==
    The({BuildFromKeys(singleOrGroup, productOptions, optionValues, keys, first) :
         first \in {FirstOfKey(keys)}})

BuildFromOptions(singleOrGroup, productOptions, optionValues) ==
    The({BuildFromValues(singleOrGroup, productOptions, optionValues, keys) :
         keys \in {[i \in 1..Len(optionValues) |->
                      buildVariantKey(optionValues[i], singleOrGroup.variants[i].sku)]}})

BuildFromInferred(singleOrGroup, hasDefinedOptions, productOptions) ==
    The({BuildFromOptions(singleOrGroup, productOptions, optionValues) :
         optionValues \in
            {[i \in 1..Len(singleOrGroup.variants) |->
                optionValuesOf(singleOrGroup.variants[i], hasDefinedOptions,
                               productOptions)]}})

BuildWith(singleOrGroup, inferred) ==
    BuildFromInferred(singleOrGroup, Len(inferred) > 0, productOptionsOf(inferred))

buildShopifyProductInputFromEbay(singleOrGroup) ==
    The({BuildWith(singleOrGroup, inferred) : inferred \in {inferredOptions(singleOrGroup)}})

\* A field of a JSON object, or the given default when the object lacks it.
Field(obj, name, default) == IF name \in DOMAIN obj THEN obj[name] ELSE default

\* it.image?.imageUrl followed by the additionalImages' imageUrl, truthy ones.
ItemImages(it) ==
    SelectSeq(<<Field(it, "image", "")>> \o Field(it, "additionalImages", <<>>),
              LAMBDA u : u # "")

\* it.mpn || it.epid || it.legacyItemId || it.itemId
ItemSku(it) ==
    IF Field(it, "mpn", None) # None THEN it.mpn
    ELSE IF Field(it, "epid", None) # None THEN it.epid
    ELSE IF Field(it, "legacyItemId", None) # None THEN it.legacyItemId
    ELSE Field(it, "itemId", None)

SyntheticSku == <<"E", "B", "A", "Y", "-">>

mapEbaySingleItem(item) ==
    LET imageUrls == Dedup(ItemImages(item))
        sku == IF ItemSku(item) # None THEN ItemSku(item) ELSE SyntheticSku
    IN [title |-> Field(item, "title", ""),
        imageUrls |-> imageUrls,
        variants |-> <<[sku |-> sku,
                        price |-> Field(item, "price", "0.00"),
                        options |-> <<>>,
                        imageUrl |-> IF imageUrls # <<>> THEN imageUrls[1] ELSE "",
                        imageUrls |-> imageUrls]>>,
        optionsOrder |-> <<>>]

IsNonEmptyArray(group, name) == name \in DOMAIN group /\ group[name] # <<>>

collectEbayItems(group) ==
    IF IsNonEmptyArray(group, "items") THEN group.items
    ELSE IF IsNonEmptyArray(group, "itemSummaries") THEN group.itemSummaries
    ELSE IF IsNonEmptyArray(group, "itemSummariesV2") THEN group.itemSummariesV2
    ELSE <<>>

RECURSIVE Flatten(_)
Flatten(ss) ==
    IF ss = <<>> THEN <<>>
    ELSE IF Len(ss) = 1 THEN ss[1]
    ELSE Flatten(SubSeq(ss, 1, Len(ss) \div 2))
         \o Flatten(SubSeq(ss, Len(ss) \div 2 + 1, Len(ss)))

\* An aspect value: a text [text |-> chars], an array [list |-> texts], or
\* null / undefined; normAspectValue gives the empty text for `undefined`.
normAspectValue(value) ==
    IF value = Null \/ value = Undefined THEN None
    ELSE IF "list" \in DOMAIN value
         THEN JoinWith(FilterTruthy([i \in 1..Len(value.list) |-> trim(value.list[i])]),
                       <<" ", "/", " ">>)
         ELSE trim(value.text)

\* [...localized, ...additional]
ItemAspects(it) ==
    Field(it, "localizedAspects", <<>>) \o Field(it, "additionalAspects", <<>>)

\* nameRaw?.trim()
AspectName(aspect) == trim(Field(aspect, "name", None))
AspectValue(aspect) == normAspectValue(Field(aspect, "value", Undefined))

\* The aspects addAspect keeps, in the order the loop of line 248 meets them.
AddedAspects(items) ==
    SelectSeq(Flatten([i \in 1..Len(items) |-> ItemAspects(items[i])]),
              LAMBDA a : AspectName(a) # None /\ AspectValue(a) # None)

\* One entry of aspectMeta: the k-th key met.
MetaOf(added, keys, k) ==
    [originalName |->
         AspectName(added[CHOOSE i \in 1..Len(added) :
                              /\ toLowerCase(AspectName(added[i])) = keys[k]
                              /\ \A j \in 1..(i - 1) :
                                    toLowerCase(AspectName(added[j])) # keys[k]]),
     values |-> {AspectValue(added[i]) :
                    i \in {j \in 1..Len(added) : toLowerCase(AspectName(added[j])) = keys[k]}},
     order |-> k - 1]

DeniedOptionNames ==
    {<<"b", "r", "a", "n", "d">>,
     <<"m", "o", "d", "e", "l">>,
     <<"t", "y", "p", "e">>,
     <<"u", "n", "i", "t", " ", "t", "y", "p", "e">>,
     <<"u", "n", "i", "t", " ", "q", "u", "a", "n", "t", "i", "t", "y">>,
     <<"f", "e", "a", "t", "u", "r", "e", "s">>,
     <<"s", "t", "y", "l", "e">>,
     <<"c", "o", "n", "n", "e", "c", "t", "i", "v", "i", "t", "y">>,
     <<"c", "o", "n", "t", "r", "a", "c", "t">>,
     <<"l", "o", "c", "k", " ", "s", "t", "a", "t", "u", "s">>,
     <<"o", "p", "e", "r", "a", "t", "i", "n", "g", " ", "s", "y", "s", "t", "e", "m">>}

\* Filters that let deny-listed names through.
QualifiesDenied(meta) ==
    /\ Cardinality(meta.values) > 1
    /\ Len(meta.originalName) <= OptionNameLimit
    /\ Cardinality(meta.values) <= OptionValueLimit

\* The three filters of lines 254-256.
Qualifies(meta) ==
    /\ Cardinality(meta.values) > 1
    /\ Len(meta.originalName) <= OptionNameLimit
    /\ Cardinality(meta.values) <= OptionValueLimit
    /\ toLowerCase(meta.originalName) \notin DeniedOptionNames

\* A comparison that looks at the first-seen order only.
MetaFirstSeen(a, b) == a.order < b.order

\* The comparison of lines 257-261.
MetaBefore(a, b) ==
    \/ Cardinality(a.values) > Cardinality(b.values)
    \/ Cardinality(a.values) = Cardinality(b.values) /\ a.order < b.order

optionNamesOf(items) ==
    LET added == AddedAspects(items)
        keys == Dedup([i \in 1..Len(added) |-> toLowerCase(AspectName(added[i]))])
        sorted == SortSeq(SelectSeq([k \in 1..Len(keys) |-> MetaOf(added, keys, k)],
                                    Qualifies),
                          MetaBefore)
    IN [i \in 1..Min(Len(sorted), OptionLimit) |-> sorted[i].originalName]

\* Lines 271-276: the value the item gives the option, from the first of its
\* aspects that has the option's name.
OptionFromAspect(it, name) ==
    LET named == SelectSeq(ItemAspects(it),
                           LAMBDA a : toLowerCase(AspectName(a)) = toLowerCase(name))
    IN IF named = <<>> THEN None ELSE AspectValue(named[1])

ItemOptions(it, optionNames) ==
    SelectSeq([i \in 1..Len(optionNames) |->
                  [name |-> optionNames[i], value |-> OptionFromAspect(it, optionNames[i])]],
              LAMBDA o : o.value # None)

MissingItems == "eBay group payload missing items"

\* A mapEbayItemGroup that maps a group without members to a product without
\* variants.
mapEbayItemGroupLenient(group) ==
    LET items == collectEbayItems(group)
    IN [ok |-> TRUE,
        payload |-> [title |-> IF Field(group, "title", "") # "" THEN group.title
                               ELSE "Imported from eBay",
                     imageUrls |-> Dedup(Flatten([i \in 1..Len(items) |-> ItemImages(items[i])])),
                     variants |-> [i \in 1..Len(items) |->
                                      [sku |-> ItemSku(items[i]),
                                       price |-> Field(items[i], "price", "0.00"),
                                       options |-> <<>>,
                                       imageUrl |-> "",
                                       imageUrls |-> ItemImages(items[i])]],
                     optionsOrder |-> <<>>]]

\* The canonical product of a group, or the error the function throws.
mapEbayItemGroup(group) ==
    LET items == collectEbayItems(group)
        first == items[1]
        optionNames == optionNamesOf(items)
        title == IF Field(group, "title", "") # "" THEN group.title
                 ELSE IF Field(first, "title", "") # "" THEN first.title
                 ELSE "Imported from eBay"
        variant(it) ==
            LET imageCandidates == ItemImages(it)
            IN [sku |-> ItemSku(it),
                price |-> IF Field(it, "price", "") # "" THEN it.price
                          ELSE Field(first, "price", "0.00"),
                options |-> ItemOptions(it, optionNames),
                imageUrl |-> IF imageCandidates # <<>> THEN imageCandidates[1] ELSE "",
                imageUrls |-> imageCandidates]
    IN IF items = <<>> THEN [ok |-> FALSE, error |-> MissingItems]
       ELSE [ok |-> TRUE,
             payload |-> [title |-> title,
                          imageUrls |-> Dedup(Flatten([i \in 1..Len(items) |-> ItemImages(items[i])])),
                          variants |-> [i \in 1..Len(items) |-> variant(items[i])],
                          optionsOrder |-> optionNames]]

(***************************************************************************)
(* The inputs: listing URLs and request bodies.                            *)
(* A URL is the pathname new URL(url) yields, or (abs = FALSE) a text that *)
(* new URL(url) rejects; the empty text is the only falsy URL.             *)
(***************************************************************************)
DigitChar(d) == <<"0", "1", "2", "3", "4", "5", "6", "7", "8", "9">>[d + 1]

RECURSIVE Pow10(_)
Pow10(k) == IF k = 0 THEN 1 ELSE 10 * Pow10(k - 1)

\* The last `width` decimal digits of n.
Digits(n, width) == [k \in 1..width |-> DigitChar((n \div Pow10(width - k)) % 10)]

Url(abs, pathname) == [abs |-> abs, pathname |-> pathname]

NumA == <<"1", "1", "1", "1", "1", "1", "1", "1", "1">>
NumB == <<"2", "2", "2", "2", "2", "2", "2", "2", "2", "2">>
NumC == <<"3", "1", "1", "1", "1", "1", "1", "1", "1">>
UrlA == Url(TRUE, ItmPrefix \o NumA)
UrlB == Url(TRUE, ItmPrefix \o NumB \o <<"/", "x">>)
UrlC == Url(TRUE, ItmPrefix \o NumC)
UrlNoId == Url(TRUE, ItmPrefix \o <<"1", "2", "3", "4", "5", "6", "7", "8">>)
UrlMalformed == Url(FALSE, <<"i", "t", "m">>)
UrlEmpty == Url(FALSE, <<>>)

UrlTruthy(u) == u.abs \/ u.pathname # <<>>

\* (Array.isArray(body?.urls) ? body.urls : (body?.url ? [body.url] : [])).filter(Boolean)
RequestUrls(body) ==
    LET list == IF "urls" \in DOMAIN body THEN body.urls
                ELSE IF "url" \in DOMAIN body /\ UrlTruthy(body.url) THEN <<body.url>>
                ELSE <<>>
    IN SelectSeq(list, UrlTruthy)

InvalidJson == [invalid |-> TRUE]

(***************************************************************************)
(* What the marketplace and the platform may answer.                       *)
(***************************************************************************)
GroupH == <<"9", "0", "0", "0", "0", "1">>
GroupS == <<"9", "0", "0", "0", "0", "2">>
ShortToken == <<"1", "2", "3", "4", "5">>
LegacyS == <<"3", "3", "3", "3", "3", "3", "3", "3", "3">>

V1(id) == <<"v", "1", "|">> \o id \o <<"|", "0">>

ItemPlain ==
    [kind |-> "item", title |-> "Listing", image |-> "img1", additionalImages |-> <<"img2">>,
     legacyItemId |-> LegacyS, price |-> "9.99", itemGroupType |-> "", itemGroupId |-> None]
ItemNoImage ==
    [kind |-> "item", title |-> "Bare", image |-> "", additionalImages |-> <<>>,
     mpn |-> <<"M", " ", "1">>, itemGroupType |-> "", itemGroupId |-> None]
ItemInGroup ==
    [kind |-> "item", title |-> "Member", image |-> "img1", additionalImages |-> <<>>,
     legacyItemId |-> LegacyS, price |-> "9.99",
     itemGroupType |-> "SELLER_DEFINED_VARIATIONS", itemGroupId |-> GroupH]

MemberRed ==
    [kind |-> "item", title |-> "Red", image |-> "imgR", additionalImages |-> <<"imgX">>,
     mpn |-> <<"R">>, price |-> "5.00"]
MemberBlue ==
    [kind |-> "item", title |-> "Blue", image |-> "imgB", additionalImages |-> <<"imgX">>,
     mpn |-> <<"B">>]

GroupFull == [kind |-> "group", title |-> "Group", items |-> <<MemberRed, MemberBlue>>]
GroupSummaries == [kind |-> "group", items |-> <<>>, itemSummaries |-> <<MemberBlue>>]
GroupZero == [kind |-> "group", title |-> "Empty", itemSummariesV2 |-> <<>>]

\* A group of MaxVariants members, each with an mpn and an image of its own
\* and one image they all share.
GroupLarge ==
    [kind |-> "group", title |-> "Large",
     items |-> [i \in 1..MaxVariants |->
                   [kind |-> "item", image |-> "img" \o ToString(i),
                    additionalImages |-> <<"imgL">>,
                    mpn |-> <<"L">> \o Digits(i, 3), price |-> "1.00"]]]

Ok(body) == [ok |-> TRUE, body |-> body]
Fail(text, token) == [ok |-> FALSE, err |-> Err(text, token)]

Ids(itemId, itemGroupId, legacyItemId) ==
    [kind |-> "ids", itemId |-> itemId, itemGroupId |-> itemGroupId,
     legacyItemId |-> legacyItemId]

\* The scripted marketplace knows the listings whose id starts with 1 or 3:
\* their legacy lookup answers an item that names its group, and the group is
\* found; the group of a listing whose id starts with 3 is the large one.
\* Every call for another listing fails, and its page holds a legacy id and a
\* group id.
Up(l) == Head(l.numeric) \in {"1", "3"}
Large(l) == Head(l.numeric) = "3"

\* A marketplace endpoint may answer 200 with the JSON body null; the free
\* marketplace does so at most MaxNullBodies times per URL.
WithNull(l, bodies) == IF l.nulls < MaxNullBodies THEN bodies \cup {Null} ELSE bodies

LegacyAnswers(l) ==
    IF mode.env = "free"
    THEN {Ok(b) : b \in WithNull(l, {ItemPlain, ItemNoImage, ItemInGroup})}
         \cup {Fail("EBAY_LEGACY_FAIL 404", t) : t \in {None, GroupH, l.numeric}}
    ELSE IF Up(l) THEN {Ok(ItemInGroup)} ELSE {Fail("EBAY_LEGACY_FAIL 404", ShortToken)}

ItemAnswers(l) ==
    IF mode.env = "free"
    THEN {Ok(b) : b \in WithNull(l, {ItemPlain, ItemInGroup})}
         \cup {Fail("eBay item failed: 404", None)}
    ELSE IF Up(l) THEN {Ok(ItemPlain)} ELSE {Fail("eBay item failed: 404", None)}

GroupAnswers(l, text) ==
    IF mode.env = "free"
    THEN {Ok(b) : b \in WithNull(l, {GroupFull, GroupSummaries, GroupZero})}
         \cup {Fail(text, None)}
    ELSE IF Large(l) THEN {Ok(GroupLarge)}
    ELSE IF Up(l) THEN {Ok(GroupFull)} ELSE {Fail(text, None)}

ScrapeAnswers(l) ==
    IF mode.env = "free"
    THEN {Ok(b) : b \in {Null,
                         Ids(V1(l.numeric), l.numeric, l.numeric),
                         Ids(V1(LegacyS), GroupH, LegacyS),
                         Ids(<<"v", "1", "|", "7", "|", "8">>, GroupS, None)}}
         \cup {Fail("eBay HTML fetch failed: 503", None)}
    ELSE IF Up(l) THEN {Ok(Null)} ELSE {Ok(Ids(None, GroupS, LegacyS))}

PlatformAnswers == IF mode.platform = "up" THEN {TRUE} ELSE {TRUE, FALSE}

(***************************************************************************)
(* app/api/import/route.ts: the locals of one POST handler.                *)
(***************************************************************************)
NoError == [text |-> "", notes |-> <<>>, skipped |-> 0]
Error(text) == [text |-> text, notes |-> <<>>, skipped |-> 0]

NoIdentifier == "Cannot parse numeric id from URL"
Exhausted == "Unable to fetch eBay data after multiple attempts"
NullDeref == "TypeError: Cannot read properties of null"
GroupFailed == "eBay item_group failed: 404"
ItemsByGroupFailed == "eBay get_items_by_item_group failed: 404"
DroppedWarning == "Skipped variants due to Shopify 100 variant limit"

\* const r: ImportResult = { sourceUrl, status: "failed" }
NewResult(sourceUrl) ==
    [sourceUrl |-> sourceUrl, status |-> "failed", legacyItemId |-> None,
     productId |-> 0, handle |-> "", title |-> "", variants |-> -1,
     shopifyUrl |-> 0, error |-> NoError]

NoResponse == [status |-> 0, results |-> <<>>]

\* The locals that live for one iteration of the loop over the URLs.
UrlLocals ==
    [r |-> NewResult(UrlEmpty), numeric |-> None,
     itemOrGroup |-> Undefined, isGroup |-> FALSE, recovering |-> FALSE,
     attemptNotes |-> <<>>, attemptedGroupIds |-> {}, attemptedLegacyIds |-> {},
     attemptedItemIds |-> {}, scrapedIds |-> Undefined, hintedGroup |-> None,
     stage |-> "", ep |-> 0, cur |-> None, cands |-> <<>>,
     payload |-> Undefined, built |-> Undefined, created |-> Undefined,
     mediaInputs |-> <<>>, mediaIdByUrl |-> <<>>, variantMediaPayload |-> <<>>,
     \* history of the iteration: the remote calls made and the raw payloads used
     calls |-> <<>>, refetched |-> Undefined, nulls |-> 0]

Idle ==
    [pc |-> "idle", urls |-> <<>>, idx |-> 0, results |-> <<>>, response |-> NoResponse]
    @@ UrlLocals

Truthy(x) == x # Undefined /\ x # Null

Note(label, id, outcome) == [label |-> label, id |-> id, outcome |-> outcome]
\* One remote call of the iteration and its answer.
Call(op, id, a) ==
    [op |-> op, id |-> id, ok |-> a.ok,
     body |-> IF a.ok THEN a.body ELSE Undefined,
     err |-> IF a.ok THEN Success ELSE a.err]

\* A catch block that reports a URL as created once its product exists.
CatchKeepingCreated(l, err) ==
    [l EXCEPT !.r.error = err,
              !.r.status = IF l.r.productId # 0 THEN "created" ELSE "failed",
              !.pc = "record"]

\* } catch (e) { r.error = String(e?.message || e); r.status = "failed"; }
Catch(l, err) == [l EXCEPT !.r.error = err, !.r.status = "failed", !.pc = "record"]

\* An exhaustion error that carries the first failure only.
ThrowFirstNoteOnly(l) ==
    [l EXCEPT !.r.error = [text |-> Exhausted, notes |-> <<Head(l.attemptNotes)>>, skipped |-> 0],
              !.r.status = "failed", !.pc = "record"]

\* throw new Error(`Unable to fetch eBay data ...:\n${attemptNotes.join("\n")}`)
ThrowExhausted(l) ==
    Catch(l, [text |-> Exhausted, notes |-> l.attemptNotes, skipped |-> 0])

\* The item ids the direct fetch tries, in order.
candidateItemIds(l) ==
    LET scraped == l.scrapedIds
        has == scraped # Undefined /\ scraped # Null
    IN Dedup(FilterTruthy(<<
            IF has THEN scraped.itemId ELSE None,
            IF has /\ scraped.legacyItemId # None THEN V1(scraped.legacyItemId) ELSE None,
            V1(l.numeric),
            l.numeric>>))

GroupLabel(ep) == IF ep = 1 THEN "item_group" ELSE "get_items_by_item_group"
GroupError(ep) == IF ep = 1 THEN GroupFailed ELSE ItemsByGroupFailed

\* A tryGroupId that does not consult the set of the group ids tried.
GroupSkippedNoDedup(l, id) == id = None \/ l.itemOrGroup \notin {Undefined, Null}

\* The first endpoint of tryGroupId(id), or the rest of the recovery when the
\* call returns at once.
GroupSkipped(l, id) == id = None \/ Truthy(l.itemOrGroup) \/ id \in l.attemptedGroupIds

LegacySkipped(l, id) == id = None \/ Truthy(l.itemOrGroup) \/ id \in l.attemptedLegacyIds

ItemSkipped(l, id) == id = None \/ Truthy(l.itemOrGroup) \/ id \in l.attemptedItemIds

\* The recovery sequence from one of its stages up to the next remote call:
\* the locals at that call, at "resolved", or at the thrown error.
RECURSIVE Enter(_, _)
tryGroupId(l, id, stage, next) ==
    IF GroupSkipped(l, id) THEN Enter(l, next)
    ELSE [l EXCEPT !.attemptedGroupIds = @ \cup {id}, !.pc = "group",
                   !.stage = stage, !.cur = id, !.ep = 1]

tryLegacyId(l, id, next) ==
    IF LegacySkipped(l, id) THEN Enter(l, next)
    ELSE [l EXCEPT !.attemptedLegacyIds = @ \cup {id}, !.pc = "relegacy", !.cur = id]

tryItemId(l, id) ==
    IF ItemSkipped(l, id) THEN Enter([l EXCEPT !.cands = Tail(@)], "itemLoop")
    ELSE [l EXCEPT !.attemptedItemIds = @ \cup {id}, !.pc = "item", !.cur = id,
                   !.cands = Tail(@)]

Enter(l, stage) ==
    LET scraped == l.scrapedIds
        has == scraped # Undefined /\ scraped # Null
    IN CASE stage = "hinted" -> tryGroupId(l, l.hintedGroup, "hinted", "numeric")
         [] stage = "numeric" -> tryGroupId(l, l.numeric, "numeric", "scrape")
         [] stage = "scrape" ->
                IF Truthy(l.itemOrGroup) THEN Enter(l, "items")
                ELSE IF l.scrapedIds # Undefined THEN Enter(l, "scrapedLegacy")
                ELSE [l EXCEPT !.pc = "scrape"]
         [] stage = "scrapedLegacy" ->
                IF has /\ scraped.legacyItemId # None /\ scraped.legacyItemId # l.numeric
                THEN tryLegacyId(l, scraped.legacyItemId, "scrapedGroup")
                ELSE Enter(l, "scrapedGroup")
         [] stage = "scrapedGroup" ->
                IF /\ ~Truthy(l.itemOrGroup)
                   /\ has /\ scraped.itemGroupId # None /\ scraped.itemGroupId # l.numeric
                THEN tryGroupId(l, scraped.itemGroupId, "scrapedGroup", "items")
                ELSE Enter(l, "items")
         [] stage = "items" ->
                IF ~Truthy(l.itemOrGroup)
                THEN Enter([l EXCEPT !.cands = candidateItemIds(l)], "itemLoop")
                ELSE Enter(l, "check")
         [] stage = "itemLoop" ->
                IF l.cands = <<>> \/ Truthy(l.itemOrGroup) THEN Enter(l, "check")
                ELSE tryItemId(l, Head(l.cands))
         [] OTHER ->
                IF ~Truthy(l.itemOrGroup) THEN ThrowExhausted(l)
                ELSE [l EXCEPT !.pc = "resolved"]

NextStage(stage) ==
    CASE stage = "hinted" -> "numeric"
      [] stage = "numeric" -> "scrape"
      [] OTHER -> "items"

normalizeGroupResponse(data) ==
    IF data = Null THEN data
    ELSE LET items == IF "items" \in DOMAIN data THEN data.items
                      ELSE IF "itemSummaries" \in DOMAIN data THEN data.itemSummaries
                      ELSE IF "itemSummariesV2" \in DOMAIN data THEN data.itemSummariesV2
                      ELSE <<>>
             firstTitle == IF items # <<>> THEN Field(items[1], "title", "") ELSE ""
             title == IF Field(data, "title", "") # "" THEN data.title ELSE firstTitle
         IN [f \in DOMAIN data \cup {"items", "title"} |->
                CASE f = "items" -> items
                  [] f = "title" -> title
                  [] OTHER -> data[f]]

(***************************************************************************)
(* lib/shopify: what the wrappers return when the platform accepts a call. *)
(***************************************************************************)
\* productCreate: product { id handle title options }
productCreate(productInput, n) ==
    [id |-> n, handle |-> "handle", title |-> productInput.title]

\* productCreateMedia: media { alt status preview { image { url } } }
productCreateMedia(media) ==
    [i \in 1..Len(media) |-> [alt |-> media[i].alt, status |-> "UPLOADED"]]

\* productVariantsBulkCreate: productVariants { id title sku selectedOptions { name value } }
productVariantsBulkCreate(variants) ==
    [i \in 1..Len(variants) |->
        [id |-> i, sku |-> variants[i].sku,
         selectedOptions |-> [j \in 1..Len(variants[i].optionValues) |->
                                [name |-> variants[i].optionValues[j].optionName,
                                 value |-> variants[i].optionValues[j].name]]]]

(***************************************************************************)
(* route.ts 198-255: the steps between the platform calls.                 *)
(***************************************************************************)
\* orderedImages: each variant's first image, then the product's images.
orderedImages(built, payload) ==
    LET assets == built.variantAssets
        firsts == [i \in 1..Len(assets) |->
                      IF assets[i].imageUrls # <<>> THEN assets[i].imageUrls[1] ELSE ""]
    IN Dedup(SelectSeq(firsts \o payload.imageUrls, LAMBDA u : u # ""))

\* Media inputs for every image, however many.
mediaInputsUncapped(built, payload) ==
    LET ordered == orderedImages(built, payload)
    IN [i \in 1..Len(ordered) |->
           [originalSource |-> ordered[i], alt |-> i, mediaContentType |-> "IMAGE"]]

mediaInputsOf(built, payload) ==
    LET ordered == orderedImages(built, payload)
        kept == SubSeq(ordered, 1, Min(Len(ordered), MEDIA_UPLOAD_LIMIT))
    IN [i \in 1..Len(kept) |->
           [originalSource |-> kept[i], alt |-> i, mediaContentType |-> "IMAGE"]]

\* mediaIdByUrl after the loop of lines 221-225: [url, id] pairs, a later
\* pair for a URL replacing an earlier one.
mediaIdByUrlOf(mediaInputs, createdMedia) ==
    LET idx == SelectSeq([i \in 1..Len(mediaInputs) |-> i],
                         LAMBDA i : /\ i <= Len(createdMedia)
                                    /\ Field(createdMedia[i], "id", 0) # 0
                                    /\ mediaInputs[i].originalSource # "")
    IN [k \in 1..Len(idx) |->
           [url |-> mediaInputs[idx[k]].originalSource, id |-> createdMedia[idx[k]].id]]

MediaIdOf(mediaIdByUrl, url) ==
    IF \E i \in 1..Len(mediaIdByUrl) : mediaIdByUrl[i].url = url
    THEN mediaIdByUrl[CHOOSE i \in 1..Len(mediaIdByUrl) :
                          /\ mediaIdByUrl[i].url = url
                          /\ \A j \in (i + 1)..Len(mediaIdByUrl) : mediaIdByUrl[j].url # url].id
    ELSE 0

\* Lines 235-239: the key of a created variant.
CreatedVariantKey(variant) ==
    buildVariantKey([j \in 1..Len(variant.selectedOptions) |->
                        [optionName |-> variant.selectedOptions[j].name,
                         name |-> variant.selectedOptions[j].value]],
                    variant.sku)

\* variantAssetMap.get(key) || []
AssetUrls(assets, key) ==
    IF \E i \in 1..Len(assets) : assets[i].key = key
    THEN assets[CHOOSE i \in 1..Len(assets) :
                    /\ assets[i].key = key
                    /\ \A j \in (i + 1)..Len(assets) : assets[j].key # key].imageUrls
    ELSE <<>>

\* Lines 241-245.
MediaIdsOf(urls, mediaIdByUrl) ==
    Dedup(SelectSeq([i \in 1..Len(urls) |-> MediaIdOf(mediaIdByUrl, urls[i])],
                    LAMBDA m : m # 0))

\* variantMediaPayload after the loop of lines 234-247.
variantMediaPayloadOf(built, createdVariants, mediaIdByUrl) ==
    SelectSeq([i \in 1..Len(createdVariants) |->
                  [variantId |-> createdVariants[i].id,
                   mediaIds |-> MediaIdsOf(AssetUrls(built.variantAssets,
                                                     CreatedVariantKey(createdVariants[i])),
                                           mediaIdByUrl)]],
              LAMBDA e : e.mediaIds # <<>>)

\* Lines 191: the platform payload is built; productCreate is the next call.
Built(l, payload) ==
    [l EXCEPT !.payload = payload,
              !.built = buildShopifyProductInputFromEbay(payload),
              !.pc = "create"]

\* A last step that reports no dropped variants.
FinishSilent(l) == [l EXCEPT !.r.status = "created", !.pc = "record"]

\* Lines 250-255.
Finish(l) ==
    LET dropped == Field(l.built.meta, "droppedVariants", 0)
    IN [l EXCEPT !.r.error = IF dropped > 0
                             THEN [text |-> DroppedWarning, notes |-> <<>>, skipped |-> dropped]
                             ELSE @,
                 !.r.status = "created",
                 !.pc = "record"]

(***************************************************************************)
(* Lines 261-263: the result is recorded.                                  *)
(***************************************************************************)
\* A history that evicts its newest entry instead of its oldest.
PushHistoryEvictNewest(cache, r) ==
    LET grown == <<r>> \o cache
    IN IF Len(grown) > HISTORY_LIMIT THEN Tail(grown) ELSE grown

\* A history that grows at its back.
PushHistoryAtBack(cache, r) ==
    LET grown == cache \o <<r>>
    IN IF Len(grown) > HISTORY_LIMIT THEN Tail(grown) ELSE grown

\* importedCache.unshift(r); if (importedCache.length > 50) importedCache.pop();
PushHistory(cache, r) ==
    LET grown == <<r>> \o cache
    IN IF Len(grown) > HISTORY_LIMIT THEN SubSeq(grown, 1, Len(grown) - 1) ELSE grown

\* A loop that a failed URL ends.
NextUrlStopOnFailure(l) ==
    [pc |-> "loop", urls |-> l.urls,
     idx |-> IF l.r.status = "failed" THEN Len(l.urls) + 1 ELSE l.idx + 1,
     results |-> Append(l.results, l.r), response |-> l.response] @@ UrlLocals

\* results.push(r), and the loop goes on to the next URL.
NextUrl(l) ==
    [pc |-> "loop", urls |-> l.urls, idx |-> l.idx + 1,
     results |-> Append(l.results, l.r), response |-> l.response] @@ UrlLocals

\* A handler that pushes a result to the results only, not to the history.
CommitResultsOnly(p, l) ==
    IF l.pc = "record"
    THEN /\ importedCache' = importedCache
         /\ recorded' = Append(recorded, [r |-> l.r, calls |-> l.calls,
                                           itemOrGroup |-> l.itemOrGroup,
                                           isGroup |-> l.isGroup,
                                           recovering |-> l.recovering,
                                           refetched |-> l.refetched,
                                           payload |-> l.payload])
         /\ h' = [h EXCEPT ![p] = NextUrl(l)]
    ELSE /\ h' = [h EXCEPT ![p] = l]
         /\ UNCHANGED <<importedCache, recorded>>

\* The handler p reaches the locals l: at "record" the result is pushed to the
\* results and to the history before the handler suspends again.
Commit(p, l) ==
    \E v \in {l} :
        IF v.pc = "record"
        THEN /\ importedCache' = PushHistory(importedCache, v.r)
             /\ recorded' = Append(recorded, [r |-> v.r, calls |-> v.calls,
                                               itemOrGroup |-> v.itemOrGroup,
                                               isGroup |-> v.isGroup,
                                               recovering |-> v.recovering,
                                               refetched |-> v.refetched,
                                               payload |-> v.payload])
             /\ h' = [h EXCEPT ![p] = NextUrl(v)]
        ELSE /\ h' = [h EXCEPT ![p] = v]
             /\ UNCHANGED <<importedCache, recorded>>

(***************************************************************************)
(* POST /api/import, one action per stretch of code between two awaits.    *)
(***************************************************************************)
InFlight == {q \in Procs : h[q].pc # "idle"}

\* The locals after a marketplace call that was answered a.
Called(l, op, id, a) ==
    [l EXCEPT !.calls = Append(@, Call(op, id, a)),
              !.nulls = IF a.ok /\ a.body = Null THEN @ + 1 ELSE @]

\* Lines 36-42: a request arrives and a handler takes it.
Post(p) ==
    /\ inbox # <<>>
    /\ h[p].pc = "idle"
    /\ \A q \in Procs : q < p => h[q].pc # "idle"
    /\ Cardinality(InFlight) < mode.inFlight
    /\ LET body == Head(inbox)
       IN h' = [h EXCEPT ![p] =
                    IF body = InvalidJson
                    THEN [Idle EXCEPT !.response = [status |-> 500, results |-> <<>>]]
                    ELSE IF RequestUrls(body) = <<>>
                    THEN [Idle EXCEPT !.response = [status |-> 400, results |-> <<>>]]
                    ELSE [Idle EXCEPT !.pc = "loop", !.urls = RequestUrls(body), !.idx = 1]]
    /\ inbox' = Tail(inbox)
    /\ UNCHANGED <<importedCache, mode, probe, shop, recorded, lastGet>>

\* A loop body without the check of line 48.
BeginUrlUnchecked(p) ==
    LET l == h[p]
    IN /\ l.pc = "loop"
       /\ l.idx <= Len(l.urls)
       /\ LET sourceUrl == l.urls[l.idx]
              numeric == parseNumericTail(sourceUrl)
          IN Commit(p, [l EXCEPT !.r = [NewResult(sourceUrl) EXCEPT !.legacyItemId = numeric],
                                 !.numeric = numeric, !.pc = "legacy"])
       /\ UNCHANGED <<inbox, mode, probe, shop, lastGet>>

\* A loop body that hands out the result the history has for the URL.
BeginUrlOnce(p) ==
    LET l == h[p]
    IN /\ l.pc = "loop"
       /\ l.idx <= Len(l.urls)
       /\ LET sourceUrl == l.urls[l.idx]
              numeric == parseNumericTail(sourceUrl)
              l1 == [l EXCEPT !.r = NewResult(sourceUrl)]
              known == {k \in 1..Len(importedCache) :
                           /\ importedCache[k].sourceUrl = sourceUrl
                           /\ importedCache[k].status = "created"}
          IN Commit(p, IF numeric = None THEN Catch(l1, Error(NoIdentifier))
                       ELSE IF known # {}
                       THEN [l1 EXCEPT !.r = importedCache[SetMin(known)], !.pc = "record"]
                       ELSE [l1 EXCEPT !.numeric = numeric, !.r.legacyItemId = numeric,
                                       !.pc = "legacy"])
       /\ UNCHANGED <<inbox, mode, probe, shop, lastGet>>

\* Lines 44-50: the next URL of the list; its numeric tail is parsed.
BeginUrl(p) ==
    LET l == h[p]
    IN /\ l.pc = "loop"
       /\ l.idx <= Len(l.urls)
       /\ LET sourceUrl == l.urls[l.idx]
              numeric == parseNumericTail(sourceUrl)
              l1 == [l EXCEPT !.r = NewResult(sourceUrl)]
          IN Commit(p, IF numeric = None THEN Catch(l1, Error(NoIdentifier))
                       ELSE [l1 EXCEPT !.numeric = numeric, !.r.legacyItemId = numeric,
                                       !.pc = "legacy"])
       /\ UNCHANGED <<inbox, mode, probe, shop, lastGet>>

\* A handler that answers only when no URL of the batch failed.
RespondIfAllCreated(p) ==
    LET l == h[p]
    IN /\ l.pc = "loop"
       /\ l.idx > Len(l.urls)
       /\ \A j \in 1..Len(l.results) : l.results[j].status = "created"
       /\ h' = [h EXCEPT ![p] = [l EXCEPT !.pc = "idle",
                                          !.response = [status |-> 200, results |-> l.results]]]
       /\ UNCHANGED <<importedCache, inbox, mode, probe, shop, recorded, lastGet>>

\* Line 266: the loop is over and the response is sent.
Respond(p) ==
    LET l == h[p]
    IN /\ l.pc = "loop"
       /\ l.idx > Len(l.urls)
       /\ h' = [h EXCEPT ![p] = [l EXCEPT !.pc = "idle",
                                          !.response = [status |-> 200, results |-> l.results]]]
       /\ UNCHANGED <<importedCache, inbox, mode, probe, shop, recorded, lastGet>>

\* An initial lookup that takes an item naming a group for a group payload.
LegacyFirstGuessingGroup(p) ==
    LET l == h[p]
    IN /\ l.pc = "legacy"
       /\ \E a \in LegacyAnswers(l) :
            LET l1 == Called(l, "legacy", l.numeric, a)
            IN Commit(p,
                 IF a.ok THEN [l1 EXCEPT !.itemOrGroup = a.body,
                                         !.isGroup = a.body # Null
                                                     /\ Field(a.body, "itemGroupId", None) # None,
                                         !.pc = "resolved"]
                 ELSE Enter([l1 EXCEPT !.recovering = TRUE,
                                       !.attemptNotes = <<Note("legacy", l.numeric, a.err)>>,
                                       !.attemptedLegacyIds = {l.numeric},
                                       !.hintedGroup = parseGroupIdFromErrorText(a.err)],
                            "hinted"))
       /\ UNCHANGED <<inbox, mode, probe, shop, lastGet>>

\* Lines 56-63 and 143-145: the legacy lookup with the numeric tail; when it
\* fails the recovery starts with the group id hinted in the error text.
LegacyFirst(p) ==
    LET l == h[p]
    IN /\ l.pc = "legacy"
       /\ \E a \in LegacyAnswers(l) :
            LET l1 == Called(l, "legacy", l.numeric, a)
            IN Commit(p,
                 IF a.ok THEN [l1 EXCEPT !.itemOrGroup = a.body, !.pc = "resolved"]
                 ELSE Enter([l1 EXCEPT !.recovering = TRUE,
                                       !.attemptNotes = <<Note("legacy", l.numeric, a.err)>>,
                                       !.attemptedLegacyIds = {l.numeric},
                                       !.hintedGroup = parseGroupIdFromErrorText(a.err)],
                            "hinted"))
       /\ UNCHANGED <<inbox, mode, probe, shop, lastGet>>

\* A tryGroupId whose catch block logs nothing.
GroupCallSilentFailure(p) ==
    LET l == h[p]
    IN /\ l.pc = "group"
       /\ \E a \in GroupAnswers(l, GroupError(l.ep)) :
            LET l1 == Called(l, GroupLabel(l.ep), l.cur, a)
                l2 == IF a.ok
                      THEN [l1 EXCEPT !.itemOrGroup = normalizeGroupResponse(a.body),
                                      !.isGroup = TRUE,
                                      !.attemptNotes = Append(@, Note(GroupLabel(l.ep), l.cur, Success))]
                      ELSE l1
            IN Commit(p, IF l.ep = 1 /\ ~Truthy(l2.itemOrGroup) THEN [l2 EXCEPT !.ep = 2]
                         ELSE Enter(l2, NextStage(l.stage)))
       /\ UNCHANGED <<inbox, mode, probe, shop, lastGet>>

\* A tryGroupId for which a group without members is no success.
GroupCallNeedingItems(p) ==
    LET l == h[p]
    IN /\ l.pc = "group"
       /\ \E a \in GroupAnswers(l, GroupError(l.ep)) :
            LET l1 == Called(l, GroupLabel(l.ep), l.cur, a)
                l2 == IF a.ok /\ collectEbayItems(normalizeGroupResponse(a.body)) # <<>>
                      THEN [l1 EXCEPT !.itemOrGroup = normalizeGroupResponse(a.body),
                                      !.isGroup = TRUE,
                                      !.attemptNotes = Append(@, Note(GroupLabel(l.ep), l.cur, Success))]
                      ELSE IF a.ok
                      THEN [l1 EXCEPT !.attemptNotes = Append(@, Note(GroupLabel(l.ep), l.cur, Success))]
                      ELSE [l1 EXCEPT !.attemptNotes = Append(@, Note(GroupLabel(l.ep), l.cur, a.err))]
            IN Commit(p, IF l.ep = 1 /\ ~Truthy(l2.itemOrGroup) THEN [l2 EXCEPT !.ep = 2]
                         ELSE Enter(l2, NextStage(l.stage)))
       /\ UNCHANGED <<inbox, mode, probe, shop, lastGet>>

\* Lines 117-127: one endpoint of tryGroupId.
GroupCall(p) ==
    LET l == h[p]
    IN /\ l.pc = "group"
       /\ \E a \in GroupAnswers(l, GroupError(l.ep)) :
            LET l1 == Called(l, GroupLabel(l.ep), l.cur, a)
                l2 == IF a.ok
                      THEN [l1 EXCEPT !.itemOrGroup = normalizeGroupResponse(a.body),
                                      !.isGroup = TRUE,
                                      !.attemptNotes = Append(@, Note(GroupLabel(l.ep), l.cur, Success))]
                      ELSE [l1 EXCEPT !.attemptNotes = Append(@, Note(GroupLabel(l.ep), l.cur, a.err))]
            IN Commit(p, IF l.ep = 1 /\ ~Truthy(l2.itemOrGroup) THEN [l2 EXCEPT !.ep = 2]
                         ELSE Enter(l2, NextStage(l.stage)))
       /\ UNCHANGED <<inbox, mode, probe, shop, lastGet>>

\* Lines 66-76: ensureScraped fetches the page.
ScrapeCall(p) ==
    LET l == h[p]
    IN /\ l.pc = "scrape"
       /\ \E a \in ScrapeAnswers(l) :
            LET l1 == [l EXCEPT !.calls = Append(@, Call("scrape", None, a))]
                l2 == IF a.ok
                      THEN [l1 EXCEPT !.scrapedIds = a.body,
                                      !.attemptNotes =
                                          IF a.body = Null
                                          THEN Append(@, Note("scrape", None,
                                                   Err("no identifiers found in HTML", None)))
                                          ELSE @]
                      ELSE [l1 EXCEPT !.scrapedIds = Null,
                                      !.attemptNotes = Append(@, Note("scrape", None, a.err))]
            IN Commit(p, Enter(l2, "scrapedLegacy"))
       /\ UNCHANGED <<inbox, mode, probe, shop, lastGet>>

\* Lines 82-87: tryLegacyId looks the scraped legacy id up.
LegacyRetry(p) ==
    LET l == h[p]
    IN /\ l.pc = "relegacy"
       /\ \E a \in LegacyAnswers(l) :
            LET l1 == Called(l, "legacy", l.cur, a)
                l2 == IF a.ok
                      THEN [l1 EXCEPT !.itemOrGroup = a.body,
                                      !.attemptNotes = Append(@, Note("legacy", l.cur, Success))]
                      ELSE [l1 EXCEPT !.attemptNotes = Append(@, Note("legacy", l.cur, a.err))]
            IN Commit(p, Enter(l2, "scrapedGroup"))
       /\ UNCHANGED <<inbox, mode, probe, shop, lastGet>>

\* Lines 134-140: tryItemId fetches one candidate item id.
ItemCall(p) ==
    LET l == h[p]
    IN /\ l.pc = "item"
       /\ \E a \in ItemAnswers(l) :
            LET l1 == Called(l, "item", l.cur, a)
                l2 == IF a.ok
                      THEN [l1 EXCEPT !.itemOrGroup = a.body,
                                      !.isGroup = FALSE,
                                      !.attemptNotes = Append(@, Note("item", l.cur, Success))]
                      ELSE [l1 EXCEPT !.attemptNotes = Append(@, Note("item", l.cur, a.err))]
            IN Commit(p, Enter(l2, "itemLoop"))
       /\ UNCHANGED <<inbox, mode, probe, shop, lastGet>>

\* Lines 185-191: the resolved payload is mapped, unless the single item names
\* its group, which is fetched first.
Reconcile(p) ==
    LET l == h[p]
        item == l.itemOrGroup
    IN /\ l.pc = "resolved"
       /\ Commit(p,
            IF l.isGroup
            THEN The({IF m.ok THEN Built(l, m.payload) ELSE Catch(l, Error(m.error)) :
                      m \in {mapEbayItemGroup(item)}})
            ELSE IF item = Null THEN Catch(l, Error(NullDeref))
            ELSE IF Field(item, "itemGroupType", "") # "" /\ Field(item, "itemGroupId", None) # None
            THEN [l EXCEPT !.pc = "regroup", !.cur = item.itemGroupId]
            ELSE The({Built(l, payload) : payload \in {mapEbaySingleItem(item)}}))
       /\ UNCHANGED <<inbox, mode, probe, shop, lastGet>>

\* A re-fetch whose failure falls back to the single item.
RegroupFallingBack(p) ==
    LET l == h[p]
    IN /\ l.pc = "regroup"
       /\ \E a \in GroupAnswers(l, GroupFailed) :
            LET l1 == Called(l, "refetch_item_group", l.cur, a)
            IN Commit(p,
                 IF ~a.ok
                 THEN The({Built(l1, payload) : payload \in {mapEbaySingleItem(l.itemOrGroup)}})
                 ELSE The({IF m.ok THEN Built([l1 EXCEPT !.refetched = a.body], m.payload)
                           ELSE Catch([l1 EXCEPT !.refetched = a.body], Error(m.error)) :
                           m \in {mapEbayItemGroup(a.body)}}))
       /\ UNCHANGED <<inbox, mode, probe, shop, lastGet>>

\* Line 188: the group of the resolved single item is fetched and mapped.
Regroup(p) ==
    LET l == h[p]
    IN /\ l.pc = "regroup"
       /\ \E a \in GroupAnswers(l, GroupFailed) :
            LET l1 == Called(l, "refetch_item_group", l.cur, a)
            IN Commit(p,
                 IF ~a.ok THEN Catch(l1, Error(a.err.text))
                 ELSE The({IF m.ok THEN Built([l1 EXCEPT !.refetched = a.body], m.payload)
                           ELSE Catch([l1 EXCEPT !.refetched = a.body], Error(m.error)) :
                           m \in {mapEbayItemGroup(a.body)}}))
       /\ UNCHANGED <<inbox, mode, probe, shop, lastGet>>

\* Lines 192-217: the product exists; the media inputs are built.
AfterCreate(l, n) ==
    LET created == productCreate(l.built.productInput, n)
        mediaInputs == mediaInputsOf(l.built, l.payload)
    IN [l EXCEPT !.created = created,
                 !.r.productId = created.id,
                 !.r.handle = created.handle,
                 !.r.title = created.title,
                 !.mediaInputs = mediaInputs,
                 !.pc = IF mediaInputs # <<>> THEN "media" ELSE "variants"]

\* Lines 220-226.
AfterMedia(l) ==
    [l EXCEPT !.mediaIdByUrl = mediaIdByUrlOf(l.mediaInputs, productCreateMedia(l.mediaInputs)),
              !.pc = "variants"]

\* Lines 228-255.
AfterVariants(l) ==
    LET createdVariants == productVariantsBulkCreate(l.built.variantInputs)
        variantMediaPayload == variantMediaPayloadOf(l.built, createdVariants, l.mediaIdByUrl)
        l1 == [l EXCEPT !.r.variants = Len(createdVariants),
                        !.r.shopifyUrl = l.created.id,
                        !.variantMediaPayload = variantMediaPayload]
    IN IF variantMediaPayload # <<>> THEN [l1 EXCEPT !.pc = "append"] ELSE Finish(l1)

PlatformError(pc) ==
    CASE pc = "create" -> "productCreate errors"
      [] pc = "media" -> "productCreateMedia errors"
      [] pc = "variants" -> "productVariantsBulkCreate errors"
      [] OTHER -> "productVariantAppendMedia errors"

\* Lines 192, 220, 228 and 248: one call of the platform and the code after it.
PlatformCall(p) ==
    LET l == h[p]
    IN /\ l.pc \in {"create", "media", "variants", "append"}
       /\ \E ok \in PlatformAnswers :
            LET l1 == [l EXCEPT !.calls =
                            Append(@, Call(l.pc, None,
                                           IF ~ok THEN Fail(PlatformError(l.pc), None)
                                           ELSE IF l.pc = "create"
                                           THEN Ok(productCreate(l.built.productInput, shop + 1))
                                           ELSE Ok(Undefined)))]
            IN /\ Commit(p,
                    CASE ~ok -> Catch(l1, Error(PlatformError(l.pc)))
                      [] ok /\ l.pc = "create" -> AfterCreate(l1, shop + 1)
                      [] ok /\ l.pc = "media" -> AfterMedia(l1)
                      [] ok /\ l.pc = "variants" -> AfterVariants(l1)
                      [] OTHER -> Finish(l1))
               /\ shop' = IF ok /\ l.pc = "create" THEN shop + 1 ELSE shop
       /\ UNCHANGED <<inbox, mode, probe, lastGet>>

(***************************************************************************)
(* GET /api/history (route.ts 4-6 and 272-274).                            *)
(***************************************************************************)
_getImportedCache == importedCache

Get ==
    /\ lastGet' = [items |-> _getImportedCache]
    /\ UNCHANGED <<importedCache, h, inbox, mode, probe, shop, recorded>>

Next ==
    \/ \E p \in Procs :
          \/ Post(p) \/ BeginUrl(p) \/ Respond(p)
          \/ LegacyFirst(p) \/ GroupCall(p) \/ ScrapeCall(p) \/ LegacyRetry(p) \/ ItemCall(p)
          \/ Reconcile(p) \/ Regroup(p) \/ PlatformCall(p)
    \/ Get

(***************************************************************************)
(* The specifications.                                                     *)
(***************************************************************************)
\* The request bodies of one URL, the ones that are refused, and one whose
\* listing is followed by a URL without identifier.
SingleBodies ==
    {[urls |-> <<u>>] : u \in {UrlA, UrlNoId, UrlMalformed, UrlEmpty}}
    \cup {[url |-> UrlA], [url |-> UrlEmpty], [other |-> TRUE], InvalidJson,
          [urls |-> <<UrlA, UrlEmpty, UrlNoId>>]}

\* No library function is called on its own while the routes run.
NoProbe == [fn |-> "none", arg |-> Undefined, out |-> Undefined]

\* The process has just started.
InitProcess ==
    /\ importedCache = <<>>
    /\ h = [p \in Procs |-> Idle]
    /\ shop = 0
    /\ recorded = <<>>
    /\ lastGet = [items |-> <<>>]

InitCommon == InitProcess /\ probe = NoProbe

\* One request, the marketplace and the platform answering anything.
Init ==
    /\ InitCommon
    /\ mode = [env |-> "free", platform |-> "free", inFlight |-> 1]
    /\ inbox \in {<<b>> : b \in SingleBodies}

Spec == Init /\ [][Next]_vars

\* The list us cut into consecutive requests after the positions of cuts.
RECURSIVE Split(_, _)
Split(us, cuts) ==
    IF us = <<>> THEN <<>>
    ELSE LET k == SetMin({c \in cuts : c >= 1 /\ c < Len(us)} \cup {Len(us)})
         IN <<[urls |-> SubSeq(us, 1, k)]>>
            \o Split(SubSeq(us, k + 1, Len(us)), {c - k : c \in cuts})

BatchUrls == {UrlA, UrlB, UrlNoId}

\* Up to MaxImports URLs in one or more requests, the marketplace scripted
\* and the platform accepting or refusing each call.
InitBatch ==
    /\ InitCommon
    /\ mode = [env |-> "scripted", platform |-> "free", inFlight |-> 1]
    /\ inbox \in {Split(us, cuts) :
                    us \in UNION {[1..n -> BatchUrls] : n \in 1..MaxImports},
                    cuts \in SUBSET (1..(MaxImports - 1))}

SpecBatch == InitBatch /\ [][Next]_vars

\* HistImports distinct URLs in requests of one size, the remote services
\* scripted: a known listing, an unknown one, a URL without identifier, ...
HistUrls ==
    [i \in 1..HistImports |->
        CASE i % 3 = 1 -> Url(TRUE, ItmPrefix \o <<"1">> \o Digits(i, 8))
          [] i % 3 = 2 -> Url(TRUE, ItmPrefix \o <<"2">> \o Digits(i, 8) \o <<"/", "x">>)
          [] OTHER -> Url(TRUE, ItmPrefix \o Digits(i, 8))]

InitHistory ==
    /\ InitCommon
    /\ mode = [env |-> "scripted", platform |-> "up", inFlight |-> 1]
    /\ inbox \in {Split(HistUrls, {c \in 1..HistImports : c % size = 0}) :
                    size \in {1, 7, HistImports}}

SpecHistory == InitHistory /\ [][Next]_vars

\* One request of two URLs, one of them possibly the listing of the large
\* group, the marketplace scripted and the platform accepting or refusing
\* each call.
InitLarge ==
    /\ InitCommon
    /\ mode = [env |-> "scripted", platform |-> "free", inFlight |-> 1]
    /\ inbox \in {<<[urls |-> <<u, v>>]>> : u, v \in BatchUrls \cup {UrlC}}

SpecLarge == InitLarge /\ [][Next]_vars

\* Every remote call eventually returns: a handler that can take a step
\* eventually takes one.
HandlerStep(p) ==
    \/ BeginUrl(p) \/ Respond(p)
    \/ LegacyFirst(p) \/ GroupCall(p) \/ ScrapeCall(p) \/ LegacyRetry(p) \/ ItemCall(p)
    \/ Reconcile(p) \/ Regroup(p) \/ PlatformCall(p)

\* One request of MaxImports URLs, or two requests of one URL each, the
\* marketplace scripted and the platform accepting or refusing each call.
InitLive ==
    /\ InitCommon
    /\ mode = [env |-> "scripted", platform |-> "free", inFlight |-> 1]
    /\ inbox \in {<<[urls |-> us]>> : us \in [1..MaxImports -> BatchUrls]}
                 \cup {<<[urls |-> <<u>>], [urls |-> <<v>>]>> : u, v \in BatchUrls}

SpecLive == InitLive /\ [][Next]_vars /\ \A p \in Procs : WF_vars(HandlerStep(p))

\* ConcImports distinct URLs: the first one of a known listing, the last one
\* of an unknown listing, the others without an identifier.
ConcurrentUrls ==
    [i \in 1..ConcImports |->
        CASE i = 1 -> Url(TRUE, ItmPrefix \o <<"1">> \o Digits(i, 8))
          [] i = ConcImports -> Url(TRUE, ItmPrefix \o <<"2">> \o Digits(i, 8) \o <<"/", "x">>)
          [] OTHER -> Url(TRUE, ItmPrefix \o Digits(i, 8))]

\* Two requests in flight at once: the first URL in one request and the
\* others in a second one, the handlers interleaving at their awaits, the
\* history read at any point; the remote services scripted.
InitConcurrent ==
    /\ InitCommon
    /\ mode = [env |-> "scripted", platform |-> "up", inFlight |-> 2]
    /\ inbox = Split(ConcurrentUrls, {1})

SpecConcurrent == InitConcurrent /\ [][Next]_vars

(***************************************************************************)
(* The library functions called on their own, as a test would call them.   *)
(***************************************************************************)
Pending(fn, arg) == [fn |-> fn, arg |-> arg, done |-> FALSE, out |-> Undefined, group |-> Undefined]

\* A canonical product of n variants whose SKUs repeat with the given period.
ManyVariants(n, period) ==
    [title |-> "Many", imageUrls |-> <<>>,
     variants |-> [i \in 1..n |->
                     [sku |-> Digits((i - 1) % period, 3), price |-> "1.00",
                      options |-> <<>>, imageUrl |-> "", imageUrls |-> <<>>]],
     optionsOrder |-> <<>>]

\* Axis names, option values and SKUs that differ in case and white space
\* only, or in more; the empty text is an absent one.
AxisNames == {<<"C", "o", "l", "o", "r">>, <<" ", "c", "o", "l", "o", "r">>,
              <<"t", "i", "t", "l", "e", " ">>, None}
AxisValues == {<<" ", "R", "e", "d", " ">>, <<"r", "e", "d">>, <<"B", "l", "u", "e">>}
Skus == {<<"A", "1">>, <<" ", "a", "1", "\t">>, <<"a", " ", "1">>, <<" ">>, None}

KeyInputs ==
    {[optionValues |-> <<[optionName |-> n, name |-> v]>>, sku |-> s] :
        n \in AxisNames, v \in AxisValues, s \in Skus}

\* The variants of the small products: one axis, Color, that a variant may lack.
Color == <<"C", "o", "l", "o", "r">>

SmallVariant(sku, options, image) ==
    [sku |-> sku, price |-> "2.00", options |-> options, imageUrl |-> image,
     imageUrls |-> IF image = "" THEN <<>> ELSE <<image, "shared">>]

SmallVariants ==
    {SmallVariant(s, <<[name |-> Color, value |-> v]>>, "img") : s \in Skus, v \in AxisValues}
    \cup {SmallVariant(s, <<>>, "") : s \in {<<"A", "1">>, None}}

SmallProducts ==
    {[title |-> "Small", imageUrls |-> <<"shared">>, variants |-> <<a, b>>, optionsOrder |-> order] :
        a \in SmallVariants, b \in SmallVariants, order \in {<<>>, <<Color>>}}

\* buildVariantKey called on two inputs, one after the other.
CallBuildVariantKey ==
    /\ probe.fn = "buildVariantKey" /\ ~probe.done
    /\ probe' = [probe EXCEPT !.done = TRUE,
                              !.out = [i \in 1..Len(probe.arg) |->
                                          buildVariantKey(probe.arg[i].optionValues,
                                                          probe.arg[i].sku)]]
    /\ UNCHANGED <<importedCache, h, inbox, mode, shop, recorded, lastGet>>

VariantCounts ==
    {1, MAX_SHOPIFY_VARIANTS - 1, MAX_SHOPIFY_VARIANTS, MAX_SHOPIFY_VARIANTS + 1, MaxVariants}

Periods == {MAX_SHOPIFY_VARIANTS - 1, MAX_SHOPIFY_VARIANTS + 1, MaxVariants}

Products ==
    {ManyVariants(n, period) : n \in VariantCounts, period \in Periods} \cup SmallProducts

\* buildShopifyProductInputFromEbay(payload): on a canonical product given
\* as such, or on the one mapEbayItemGroup has just returned (route.ts:191).

\* Groups for mapEbayItemGroup.  A profile lists aspects [name, count]: the
\* i-th member gives the aspect the value Digits((i - 1) % count, 2), so the
\* aspect has `count` distinct values over a group of at least `count` members.
Text(chars) == [text |-> chars]

ProfileItem(i, profile) ==
    [legacyItemId |-> Digits(i, 3), price |-> "1.00",
     localizedAspects |-> [k \in 1..Len(profile) |->
                              [name |-> profile[k].name,
                               value |-> Text(Digits((i - 1) % profile[k].count, 2))]]]

ProfileGroup(profile, n) ==
    [title |-> "Group", items |-> [i \in 1..n |-> ProfileItem(i, profile)]]

Aspect(name, count) == [name |-> name, count |-> count]

Size == <<"S", "i", "z", "e">>
Material == <<"M", "a", "t", "e", "r", "i", "a", "l">>
Length == <<"L", "e", "n", "g", "t", "h">>
Name30 == [i \in 1..OptionNameLimit |-> "n"]
Name31 == [i \in 1..(OptionNameLimit + 1) |-> "m"]
FourNames == <<Color, Size, Material, Length>>
Orders == {<<1, 2, 3, 4>>, <<4, 3, 2, 1>>}

\* Four plain aspects with one to three values each, in two orders.
PlainProfiles ==
    {[k \in 1..4 |-> Aspect(FourNames[order[k]], counts[order[k]])] :
        order \in Orders, counts \in [1..4 -> 1..3]}

\* A denied name, in some case, beside Color with one value or two.
DeniedProfiles ==
    {<<Aspect(name, c), Aspect(Color, d)>> :
        name \in DeniedOptionNames \cup {<<"B", "R", "A", "N", "D">>, <<" ", "T", "y", "p", "e", " ">>}, c \in 1..2, d \in 1..2}

\* Names of 30 and 31 characters; 50 and 51 values; a name in two spellings.
EdgeProfiles ==
    {<<Aspect(Name31, 3), Aspect(Name30, 2), Aspect(Color, 2)>>,
     <<Aspect(Color, OptionValueLimit), Aspect(Size, OptionValueLimit + 1),
       Aspect(Material, 2)>>,
     <<Aspect(Size, OptionValueLimit + 1)>>,
     <<Aspect(Color, 1), Aspect(<<" ", "C", "O", "L", "O", "R", " ">>, 2), Aspect(Size, 2)>>,
     <<Aspect(<<"B", "R", "A", "N", "D">>, 2), Aspect(<<"m", "o", "d", "e", "l">>, 3), Aspect(<<" ", "T", "y", "p", "e", " ">>, 2)>>}

\* Values as arrays, null values, additionalAspects, aspects without a name,
\* values that differ in case only or in white space only.
Red == <<"R", "e", "d">>
HandGroups ==
    {[title |-> "Hand",
      items |-> <<[legacyItemId |-> Digits(1, 3),
                   localizedAspects |-> <<[name |-> Color,
                                           value |-> [list |-> <<<<" ", "R", "e", "d", " ">>, <<" ">>, <<"B", "l", "u", "e">>>>]],
                                          [value |-> Text(Red)]>>],
                  [legacyItemId |-> Digits(2, 3),
                   localizedAspects |-> <<[name |-> Color, value |-> Null],
                                          [name |-> Size, value |-> Text(<<" ">>)]>>,
                   additionalAspects |-> <<[name |-> Color, value |-> Text(c)],
                                           [name |-> Size, value |-> Text(Red)]>>],
                  [legacyItemId |-> Digits(3, 3),
                   additionalAspects |-> <<[name |-> Size, value |-> Text(s)]>>]>>] :
        c \in {<<" ", "R", "e", "d", " ">>, <<"r", "e", "d">>, <<"R", "e", "d", " ", "/", " ", "B", "l", "u", "e">>}, s \in {Red, <<" ", "R", "e", "d", " ">>, <<"r", "e", "d">>}}
    \cup {[title |-> "Empty", items |-> <<>>],
          [itemSummaries |-> <<[title |-> "Summary", itemId |-> Digits(7, 3)]>>]}

Groups ==
    {ProfileGroup(profile, 3) : profile \in PlainProfiles \cup DeniedProfiles}
    \cup {ProfileGroup(profile, OptionValueLimit + 1) : profile \in EdgeProfiles}
    \cup HandGroups

CallMapGroup ==
    /\ probe.fn = "mapEbayItemGroup" /\ ~probe.done
    /\ probe' = [probe EXCEPT !.done = TRUE, !.out = mapEbayItemGroup(probe.arg)]
    /\ UNCHANGED <<importedCache, h, inbox, mode, shop, recorded, lastGet>>

\* Paths for parseNumericTail: a run of digits one short of, at, or one over
\* the least length, after a prefix and before a suffix.
RunOf(w) == [i \in 1..w |-> DigitChar(i % 10)]
OtherRun == [i \in 1..MinTailDigits |-> DigitChar((10 - i) % 10)]

PathPrefixes == {ItmPrefix, <<"/", "p", "/">>, <<"/", "i", "t", "m", "/", "t", "-">>, <<"/">>}
PathSuffixes ==
    {<<>>, <<"/">>, <<"/", "x">>, <<"x">>, <<"/">> \o OtherRun, ItmPrefix \o OtherRun,
     ItmPrefix \o OtherRun \o <<"/", "y">>}

ParseUrls ==
    {Url(abs, prefix \o RunOf(w) \o suffix) :
        abs \in BOOLEAN, prefix \in PathPrefixes, suffix \in PathSuffixes,
        w \in (MinTailDigits - 1)..(MinTailDigits + 1)}
    \cup {UrlEmpty}

CallParseNumericTail ==
    /\ probe.fn = "parseNumericTail" /\ ~probe.done
    /\ probe' = [probe EXCEPT !.done = TRUE, !.out = parseNumericTail(probe.arg)]
    /\ UNCHANGED <<importedCache, h, inbox, mode, shop, recorded, lastGet>>

CallBuild ==
    /\ \/ probe.fn = "buildShopifyProductInputFromEbay" /\ ~probe.done
       \/ probe.fn = "mapEbayItemGroup" /\ probe.done /\ probe.out.ok
    /\ LET fromGroup == probe.fn = "mapEbayItemGroup"
           product == IF fromGroup THEN probe.out.payload ELSE probe.arg
       IN probe' = [fn |-> "buildShopifyProductInputFromEbay", arg |-> product, done |-> TRUE,
                    out |-> buildShopifyProductInputFromEbay(product),
                    group |-> IF fromGroup THEN probe.arg ELSE Undefined]
    /\ UNCHANGED <<importedCache, h, inbox, mode, shop, recorded, lastGet>>

NextLib == CallBuild \/ CallBuildVariantKey \/ CallMapGroup \/ CallParseNumericTail

InitLib ==
    /\ InitProcess
    /\ inbox = <<>>
    /\ mode = [env |-> "scripted", platform |-> "up", inFlight |-> 1]
    /\ probe \in {Pending("buildShopifyProductInputFromEbay", x) : x \in Products}
                 \cup {Pending("buildVariantKey", <<a, b>>) : a \in KeyInputs, b \in KeyInputs}
                 \cup {Pending("mapEbayItemGroup", x) : x \in Groups}
                 \cup {Pending("parseNumericTail", x) : x \in ParseUrls}

SpecLib == InitLib /\ [][NextLib]_vars

(***************************************************************************)
(* What the properties speak about: the iterations of the loop over the    *)
(* URLs, finished (recorded) or under way (the locals of a handler).       *)
(***************************************************************************)
ResolutionOps == {"legacy", "item_group", "get_items_by_item_group", "scrape", "item"}
GroupOps == {"item_group", "get_items_by_item_group"}
PlatformOps == {"create", "media", "variants", "append"}

UnderWay == {p \in Procs : h[p].pc \notin {"idle", "loop"}}

\* The iterations, each with the numeric tail of its URL.
Iterations ==
    {[calls |-> h[p].calls, numeric |-> h[p].numeric, isGroup |-> h[p].isGroup,
      recovering |-> h[p].recovering, itemOrGroup |-> h[p].itemOrGroup] : p \in UnderWay}
    \cup {[calls |-> recorded[i].calls, numeric |-> recorded[i].r.legacyItemId,
           isGroup |-> recorded[i].isGroup, recovering |-> recorded[i].recovering,
           itemOrGroup |-> recorded[i].itemOrGroup] : i \in 1..Len(recorded)}

\* The calls of the resolver among the calls of an iteration.
Resolution(calls) == SelectSeq(calls, LAMBDA c : c.op \in ResolutionOps)

\* The attempts: every resolution call but the fetch of the page.
Attempts(calls) == SelectSeq(calls, LAMBDA c : c.op \in ResolutionOps \ {"scrape"})

\* The diagnostic entries the calls of an iteration amount to: one per attempt
\* (label, candidate id, success or error text), and one for a page that could
\* not be fetched or held no identifier.
Logged(c) == c.op # "scrape" \/ ~c.ok \/ c.body = Null

EntryOf(c) ==
    [label |-> c.op,
     id |-> c.id,
     outcome |-> IF c.op = "scrape" /\ c.ok
                 THEN [text |-> "no identifiers found in HTML", token |-> <<>>]
                 ELSE c.err]

NotesOf(calls) ==
    LET logged == SelectSeq(Resolution(calls), Logged)
    IN [k \in 1..Len(logged) |-> EntryOf(logged[k])]

\* C1: the history holds at most 50 entries and is exactly the most recently
\* recorded results, newest first; no result recorded before them is left in it.
C1_HistoryNewestFirst ==
    LET n == Len(recorded)
        k == IF n < HISTORY_LIMIT THEN n ELSE HISTORY_LIMIT
    IN /\ Len(importedCache) = k
       /\ k <= HISTORY_LIMIT
       /\ \A i \in 1..k : importedCache[i] = recorded[n - i + 1].r
       /\ \A j \in 1..(n - k) : \A i \in 1..k : importedCache[i] # recorded[j].r

\* After HistImports (more than 50) imports the history holds 50 entries, the
\* latest in front, and the first one recorded is gone.
C1_Witness ==
    /\ Len(recorded) = HistImports
    /\ HistImports > HISTORY_LIMIT
    /\ Len(importedCache) = HISTORY_LIMIT
    /\ importedCache[1] = recorded[HistImports].r
    /\ \A i \in 1..Len(importedCache) : importedCache[i] # recorded[1].r

\* C2: the response of a batch holds one result per URL of the list, in the
\* order of the list, each created or failed, a failed one with its error
\* text; and while the batch runs the URLs before the current one have theirs.
C2_OneResultPerUrl ==
    \A p \in Procs :
        LET l == h[p]
            WellFormed(results) ==
                \A i \in 1..Len(results) :
                    /\ i <= Len(l.urls)
                    /\ results[i].sourceUrl = l.urls[i]
                    /\ results[i].status \in {"created", "failed"}
                    /\ results[i].status = "failed" => results[i].error.text # ""
        IN /\ l.response.status = 200 =>
                /\ Len(l.response.results) = Len(l.urls)
                /\ WellFormed(l.response.results)
           /\ l.pc # "idle" =>
                /\ Len(l.results) = l.idx - 1
                /\ WellFormed(l.results)

\* A batch was answered in which a URL failed and a later URL was imported.
C2_Witness ==
    \E p \in Procs :
        LET res == h[p].response
        IN /\ res.status = 200
           /\ Len(res.results) = Len(h[p].urls)
           /\ \E i, j \in 1..Len(res.results) :
                /\ i < j
                /\ res.results[i].status = "failed"
                /\ res.results[j].status = "created"

\* C3: a result is created only if the resolution ended with a payload and
\* every call made after it succeeded, product and variant creation among
\* them; if a call fails after the product was created the result is failed
\* with an error text, keeps the id of the product, and the failed call is the
\* last call made for the URL.
C3_CreatedOnlyIfAllSucceeded ==
    \A i \in 1..Len(recorded) :
        LET e == recorded[i]
            cs == e.calls
            After(k) == {j \in (k + 1)..Len(cs) : ~cs[j].ok}
        IN /\ e.r.status = "created" =>
                /\ Truthy(e.itemOrGroup)
                /\ \A k \in 1..Len(cs) : cs[k].op \notin ResolutionOps => cs[k].ok
                /\ \E k \in 1..Len(cs) : cs[k].op = "create"
                /\ \E k \in 1..Len(cs) : cs[k].op = "variants"
                /\ e.r.productId # 0
           /\ \A k \in 1..Len(cs) :
                cs[k].op = "create" /\ cs[k].ok /\ After(k) # {} =>
                    /\ e.r.status = "failed"
                    /\ e.r.error.text # ""
                    /\ e.r.productId = cs[k].body.id
                    /\ e.r.productId \in 1..shop
                    /\ After(k) = {Len(cs)}
                    /\ \A j \in (k + 1)..Len(cs) : cs[j].op \in {"media", "variants", "append"}

\* A product was created and a later step of the same URL failed.
C3_Witness ==
    \E i \in 1..Len(recorded) :
        /\ recorded[i].r.status = "failed"
        /\ recorded[i].r.productId # 0
        /\ \E k \in 1..Len(recorded[i].calls) :
              recorded[i].calls[k].op = "create" /\ recorded[i].calls[k].ok

\* C4: a URL without a parseable numeric tail is recorded as failed with the
\* error of line 48 and without any remote call, and no handler is ever past
\* that line for such a URL.
C4_NoIdentifierFailsAtOnce ==
    /\ \A i \in 1..Len(recorded) :
          parseNumericTail(recorded[i].r.sourceUrl) = None =>
              /\ recorded[i].r.status = "failed"
              /\ recorded[i].r.error.text = NoIdentifier
              /\ recorded[i].calls = <<>>
    /\ \A p \in Procs :
          parseNumericTail(h[p].r.sourceUrl) = None => p \notin UnderWay /\ h[p].calls = <<>>

\* A URL without numeric tail (too few digits, or not a URL) was recorded.
C4_Witness ==
    \E i \in 1..Len(recorded) :
        /\ recorded[i].r.sourceUrl \in {UrlNoId, UrlMalformed}
        /\ recorded[i].r.status = "failed"

\* C5: when the first call of an iteration, the legacy lookup with the numeric
\* tail, succeeds, it stays the only resolution call of the iteration, the
\* payload is its answer, isGroup is false and the recovery is never entered.
C5_LegacySuccessTerminal ==
    \A it \in Iterations :
        it.calls # <<>> /\ it.calls[1].ok =>
            /\ it.calls[1].op = "legacy" /\ it.calls[1].id = it.numeric
            /\ it.itemOrGroup = it.calls[1].body
            /\ ~it.isGroup
            /\ ~it.recovering
            /\ Len(Resolution(it.calls)) = 1

\* A listing found by the initial legacy lookup was imported.
C5_Witness ==
    \E i \in 1..Len(recorded) :
        /\ recorded[i].r.status = "created"
        /\ recorded[i].calls[1].op = "legacy" /\ recorded[i].calls[1].ok
        /\ ~recorded[i].isGroup

\* The page identifiers known before the k-th resolution call (Null if none).
ScrapedBefore(rs, k) ==
    LET scrapes == {j \in 1..(k - 1) : rs[j].op = "scrape"}
    IN IF scrapes = {} THEN Null
       ELSE LET j == CHOOSE j \in scrapes : TRUE
            IN IF rs[j].ok THEN rs[j].body ELSE Null

\* The position of the k-th resolution call in the fixed order: 0 the initial
\* legacy lookup, 1 the hinted group, 2 the numeric tail as group, 3 the
\* scrape, 4 the scraped legacy id, 5 the scraped group, 6 an item fetch, and
\* 7 for a call that has no place in it.
Rank(rs, numeric, k) ==
    LET c == rs[k]
        hinted == IF rs[1].ok THEN None ELSE parseGroupIdFromErrorText(rs[1].err)
        unscraped == \A j \in 1..(k - 1) : rs[j].op # "scrape"
        scraped == ScrapedBefore(rs, k)
    IN CASE c.op = "legacy" /\ k = 1 /\ c.id = numeric -> 0
         [] c.op \in GroupOps /\ unscraped /\ c.id = hinted -> 1
         [] c.op \in GroupOps /\ unscraped /\ c.id = numeric -> 2
         [] c.op = "scrape" -> 3
         [] c.op = "legacy" /\ scraped # Null /\ c.id = scraped.legacyItemId -> 4
         [] c.op \in GroupOps /\ scraped # Null /\ c.id = scraped.itemGroupId -> 5
         [] c.op = "item" -> 6
         [] OTHER -> 7

\* The resolution calls follow the fixed order, a group id being tried on the
\* group-detail endpoint and then on the items-by-group endpoint.
FixedOrder(it) ==
    LET rs == Resolution(it.calls)
    IN \A k \in 1..Len(rs) :
          /\ Rank(rs, it.numeric, k) <= 6
          /\ rs[k].op = "get_items_by_item_group" =>
                k > 1 /\ rs[k - 1].op = "item_group" /\ rs[k - 1].id = rs[k].id
          /\ k > 1 =>
                LET a == Rank(rs, it.numeric, k - 1)
                    b == Rank(rs, it.numeric, k)
                IN /\ a <= b
                   /\ a = b => \/ b = 6 /\ rs[k - 1].id # rs[k].id
                               \/ /\ rs[k - 1].op = "item_group"
                                  /\ rs[k].op = "get_items_by_item_group"

ScrapedOnce(it) == Cardinality({k \in 1..Len(it.calls) : it.calls[k].op = "scrape"}) <= 1

\* No attempt follows an attempt that was answered successfully.
StopsAtFirstSuccess(it) ==
    LET as == Attempts(it.calls)
    IN \A k \in 1..(Len(as) - 1) : ~as[k].ok

\* C6: the resolution calls of an iteration follow the fixed order, the page
\* is fetched at most once, and no attempt is made after a successful one.
C6_FixedOrderUntilFirstSuccess ==
    \A it \in Iterations : FixedOrder(it) /\ ScrapedOnce(it) /\ StopsAtFirstSuccess(it)

\* The part of C6 the code keeps: the order, the single scrape, and no attempt
\* after an attempt that returned a payload.
C6_OrderAndStopAtPayload ==
    \A it \in Iterations :
        /\ FixedOrder(it)
        /\ ScrapedOnce(it)
        /\ LET as == Attempts(it.calls)
           IN \A k \in 1..(Len(as) - 1) : ~(as[k].ok /\ as[k].body # Null)

\* The endpoint a call goes to: the re-fetch of line 188 calls the
\* group-detail endpoint like the first attempt of tryGroupId.
Endpoint(c) == IF c.op = "refetch_item_group" THEN "item_group" ELSE c.op

\* C7 as stated: while one URL is processed no legacy id is looked up twice,
\* no group id twice on the same group endpoint, and no item id twice.
C7_NoIdTwicePerEndpoint ==
    \A it \in Iterations :
        \A j, k \in 1..Len(it.calls) :
            /\ j < k
            /\ it.calls[j].op \in (ResolutionOps \ {"scrape"}) \cup {"refetch_item_group"}
            /\ Endpoint(it.calls[j]) = Endpoint(it.calls[k])
            => it.calls[j].id # it.calls[k].id

\* C7, for the attempts of the resolver: no legacy id is looked up twice, no
\* group id twice on the same group endpoint, and no item id twice; the
\* re-fetch of the group a resolved single item names is outside of it.
C7_ResolverDedup ==
    \A it \in Iterations :
        LET as == Attempts(it.calls)
        IN \A j, k \in 1..Len(as) :
              j < k /\ as[j].op = as[k].op => as[j].id # as[k].id

\* The error text hinted the numeric tail itself as the group id: the tail was
\* tried as a group once, and the resolver is past its second turn.
C7_Witness ==
    \E p \in UnderWay :
        LET l == h[p]
        IN /\ l.hintedGroup = l.numeric
           /\ l.numeric # None
           /\ \E k \in 1..Len(l.calls) : l.calls[k].op = "scrape"
           /\ Cardinality({k \in 1..Len(l.calls) :
                              l.calls[k].op = "item_group" /\ l.calls[k].id = l.numeric}) = 1

\* C8: a result that failed by exhaustion carries the entry of every attempt
\* made for the URL, in the order of the calls, after no platform call; the
\* result of an iteration whose attempts all failed is this one; and the
\* batch still has one result per URL when it is answered.
C8_ExhaustedCarriesEveryNote ==
    /\ \A i \in 1..Len(recorded) :
          LET e == recorded[i]
              as == Attempts(e.calls)
          IN /\ e.r.error.text = Exhausted =>
                  /\ e.r.status = "failed"
                  /\ e.r.error.notes = NotesOf(e.calls)
                  /\ Len(e.r.error.notes) >= Len(as)
                  /\ \A k \in 1..Len(e.calls) : e.calls[k].op \in ResolutionOps
             /\ (as # <<>> /\ \A k \in 1..Len(as) : ~as[k].ok) =>
                  e.r.error.text = Exhausted
    /\ \A p \in Procs :
          h[p].response.status = 200 => Len(h[p].response.results) = Len(h[p].urls)

\* The first URL of a batch failed by exhaustion after several failed
\* attempts, and the batch was answered with the result of a later URL too.
C8_Witness ==
    \E p \in Procs :
        LET res == h[p].response.results
        IN /\ h[p].response.status = 200
           /\ Len(res) >= 2
           /\ res[1].error.text = Exhausted
           /\ Len(res[1].error.notes) >= 3
           /\ \A k \in 1..Len(res[1].error.notes) : res[1].error.notes[k].outcome # Success

\* C9: during and after a recovery the log holds the entries of the attempts
\* made so far in their order; when the last resolution call is an attempt
\* that succeeded, its success entry is the last entry, every failed attempt
\* before it has its entry before it, and a group endpoint that succeeded
\* leaves isGroup true; the log of a resolved payload ends with a success.
C9_FailuresLoggedBeforeSuccess ==
    \A p \in UnderWay :
        LET l == h[p]
            rs == Resolution(l.calls)
            last == rs[Len(rs)]
            notes == l.attemptNotes
        IN l.recovering =>
              /\ notes = NotesOf(l.calls)
              /\ last.op # "scrape" /\ last.ok =>
                    /\ notes[Len(notes)] =
                          [label |-> last.op, id |-> last.id, outcome |-> Success]
                    /\ \A k \in 1..(Len(rs) - 1) :
                          rs[k].op # "scrape" /\ ~rs[k].ok =>
                              \E n \in 1..(Len(notes) - 1) :
                                  /\ notes[n] = [label |-> rs[k].op, id |-> rs[k].id,
                                                 outcome |-> rs[k].err]
                                  /\ Len(NotesOf(SubSeq(rs, 1, k))) = n
                    /\ last.op \in GroupOps => l.isGroup
              /\ l.pc = "resolved" => notes[Len(notes)].outcome = Success

\* The legacy lookup failed hinting a group, both endpoints failed for the
\* hinted id, and the group-detail endpoint answered for the numeric tail.
C9_Witness ==
    \E p \in UnderWay :
        LET l == h[p]
        IN /\ l.pc = "resolved"
           /\ l.isGroup
           /\ Len(l.calls) = 4
           /\ [k \in 1..4 |-> l.calls[k].op] =
                 <<"legacy", "item_group", "get_items_by_item_group", "item_group">>
           /\ [k \in 1..4 |-> l.calls[k].ok] = <<FALSE, FALSE, FALSE, TRUE>>
           /\ l.calls[2].id = l.hintedGroup /\ l.calls[4].id = l.numeric
           /\ Len(l.attemptNotes) = 4
           /\ l.attemptNotes[4].outcome = Success

\* The payload is a single item that names its group.
DeclaresGroup(item) ==
    /\ Truthy(item)
    /\ "items" \notin DOMAIN item
    /\ Field(item, "itemGroupType", "") # ""
    /\ Field(item, "itemGroupId", None) # None

\* The iteration left line 189 with the group of the item fetched again and
\* the canonical product mapped from that group.
Regrouped(calls, item, refetched, payload) ==
    /\ \E k \in 1..Len(calls) :
          /\ calls[k].op = "refetch_item_group"
          /\ calls[k].id = item.itemGroupId
    /\ payload # Undefined =>
          /\ refetched # Undefined
          /\ mapEbayItemGroup(refetched).ok
          /\ payload = mapEbayItemGroup(refetched).payload

\* C10: when the resolved payload is a single item that names its group, the
\* group is fetched again and the product is built from the group payload.
C10_GroupSupersedesItem ==
    /\ \A i \in 1..Len(recorded) :
          LET e == recorded[i]
          IN DeclaresGroup(e.itemOrGroup) =>
                Regrouped(e.calls, e.itemOrGroup, e.refetched, e.payload)
    /\ \A p \in UnderWay :
          LET l == h[p]
          IN l.pc \in PlatformOps /\ DeclaresGroup(l.itemOrGroup) =>
                Regrouped(l.calls, l.itemOrGroup, l.refetched, l.payload)

\* The same, for the iterations whose isGroup flag is false at line 185.
C10_WhenFlagIsFalse ==
    /\ \A i \in 1..Len(recorded) :
          LET e == recorded[i]
          IN DeclaresGroup(e.itemOrGroup) /\ ~e.isGroup =>
                Regrouped(e.calls, e.itemOrGroup, e.refetched, e.payload)
    /\ \A p \in UnderWay :
          LET l == h[p]
          IN l.pc \in PlatformOps /\ DeclaresGroup(l.itemOrGroup) /\ ~l.isGroup =>
                Regrouped(l.calls, l.itemOrGroup, l.refetched, l.payload)

\* C11: an iteration that maps a payload as a group (the resolved one when
\* isGroup is set, or the group fetched again for a single item) whose three
\* item lists are all empty or absent is recorded as failed with the
\* missing-items error, and no platform call was made for it.
C11_EmptyGroupFails ==
    \A i \in 1..Len(recorded) :
        LET e == recorded[i]
            mapped == IF e.isGroup THEN e.itemOrGroup ELSE e.refetched
        IN Truthy(mapped) /\ collectEbayItems(mapped) = <<>> =>
              /\ e.r.status = "failed"
              /\ e.r.error.text = MissingItems
              /\ e.r.productId = 0
              /\ \A k \in 1..Len(e.calls) : e.calls[k].op \notin PlatformOps

\* A group endpoint answered a group without members and the URL failed.
C11_Witness ==
    \E i \in 1..Len(recorded) :
        LET e == recorded[i]
        IN /\ e.isGroup
           /\ Truthy(e.itemOrGroup)
           /\ e.itemOrGroup.kind = "group"
           /\ e.itemOrGroup.items = <<>>
           /\ e.r.error.text = MissingItems
           /\ shop = 0

\* The builder has returned.
BuilderReturned == probe.fn = "buildShopifyProductInputFromEbay" /\ probe.done

\* The key of each variant of a canonical product, in input order.
ProductKeys(product) ==
    LET inferred == inferredOptions(product)
        productOptions == productOptionsOf(inferred)
    IN [i \in 1..Len(product.variants) |->
           buildVariantKey(optionValuesOf(product.variants[i], Len(inferred) > 0, productOptions),
                           product.variants[i].sku)]

\* The positions of the variants that are the first with their key.
Firsts(keys) == {i \in 1..Len(keys) : \A j \in 1..(i - 1) : keys[j] # keys[i]}

\* C12: the builder returns at most 100 variant inputs: of the k variants
\* left after deduplication the first 100 in input order, with
\* meta.droppedVariants = k - 100 when k > 100 and no meta when k <= 100.
C12_VariantCap ==
    BuilderReturned =>
        LET product == probe.arg
            out == probe.out
            keys == ProductKeys(product)
            firsts == Firsts(keys)
            k == Cardinality(firsts)
        IN /\ Len(out.variantInputs) <= MAX_SHOPIFY_VARIANTS
           /\ Len(out.variantAssets) = Len(out.variantInputs)
           /\ k > MAX_SHOPIFY_VARIANTS =>
                 /\ Len(out.variantInputs) = MAX_SHOPIFY_VARIANTS
                 /\ out.meta = [droppedVariants |-> k - MAX_SHOPIFY_VARIANTS]
           /\ k <= MAX_SHOPIFY_VARIANTS =>
                 /\ Len(out.variantInputs) = k
                 /\ out.meta = Undefined
           /\ \A i \in firsts :
                 LET pos == Cardinality({j \in firsts : j <= i})
                 IN pos <= MAX_SHOPIFY_VARIANTS =>
                       /\ out.variantAssets[pos].key = keys[i]
                       /\ out.variantInputs[pos].sku = product.variants[i].sku

\* A product of MaxVariants (more than 100) distinct variants was built.
C12_Witness ==
    /\ BuilderReturned
    /\ MaxVariants > MAX_SHOPIFY_VARIANTS
    /\ Len(probe.arg.variants) = MaxVariants
    /\ Cardinality(Firsts(ProductKeys(probe.arg))) = MaxVariants
    /\ Len(probe.out.variantInputs) = MAX_SHOPIFY_VARIANTS
    /\ probe.out.meta = [droppedVariants |-> MaxVariants - MAX_SHOPIFY_VARIANTS]


\* The (axis name, value) pairs and the SKU a variant goes into its key with.
VariantPairs(product) ==
    LET inferred == inferredOptions(product)
        productOptions == productOptionsOf(inferred)
    IN [i \in 1..Len(product.variants) |->
           [optionValues |-> optionValuesOf(product.variants[i], Len(inferred) > 0,
                                            productOptions),
            sku |-> product.variants[i].sku]]

\* Two variants are equal after trimming and lower-casing.
EqualNormalized(a, b) ==
    /\ Len(a.optionValues) = Len(b.optionValues)
    /\ \A i \in 1..Len(a.optionValues) :
          /\ normalizeKeyPart(a.optionValues[i].optionName)
                = normalizeKeyPart(b.optionValues[i].optionName)
          /\ normalizeKeyPart(a.optionValues[i].name)
                = normalizeKeyPart(b.optionValues[i].name)
    /\ normalizeKeyPart(a.sku) = normalizeKeyPart(b.sku)

\* Both variants have a SKU, or neither has.
SkuPresenceAgrees(a, b) == (a.sku = None) <=> (b.sku = None)

KeysCompared == probe.fn = "buildVariantKey" /\ probe.done

\* The variants of the payload carry distinct keys, one asset per input, and
\* are the variants that are the first with their key, in input order.
DedupByKey ==
    BuilderReturned =>
        LET out == probe.out
            pairs == VariantPairs(probe.arg)
            n == Len(out.variantInputs)
        IN /\ Len(out.variantAssets) = n
           /\ \A i, j \in 1..n : i # j => out.variantAssets[i].key # out.variantAssets[j].key
           /\ \A i \in 1..n :
                 /\ out.variantAssets[i].key
                       = buildVariantKey(out.variantInputs[i].optionValues,
                                         out.variantInputs[i].sku)
                 /\ out.variantInputs[i].mediaSrc # <<>> =>
                       out.variantInputs[i].mediaSrc[1] = out.variantAssets[i].imageUrls[1]
                 /\ out.variantInputs[i].mediaSrc = <<>> =>
                       out.variantAssets[i].imageUrls = <<>>

\* C13: two variants whose (axis name, value) pairs and SKU are equal after
\* trimming and lower-casing get the same variant key; of such variants only
\* the first in input order survives into the payload; the keys of
\* variantAssets are pairwise distinct and aligned one-to-one with
\* variantInputs.
C13_KeysInsensitiveAndDedup ==
    /\ KeysCompared =>
          (EqualNormalized(probe.arg[1], probe.arg[2]) => probe.out[1] = probe.out[2])
    /\ BuilderReturned =>
          LET pairs == VariantPairs(probe.arg)
              survivors == {i \in 1..Len(pairs) :
                               \A j \in 1..(i - 1) : ~EqualNormalized(pairs[j], pairs[i])}
          IN Len(pairs) <= MAX_SHOPIFY_VARIANTS =>
                /\ Len(probe.out.variantInputs) = Cardinality(survivors)
                /\ \A i \in survivors :
                      probe.out.variantInputs[Cardinality({j \in survivors : j <= i})]
                         = [price |-> probe.arg.variants[i].price,
                            sku |-> pairs[i].sku,
                            optionValues |-> pairs[i].optionValues,
                            mediaSrc |-> probe.out.variantInputs[
                                            Cardinality({j \in survivors : j <= i})].mediaSrc]
    /\ DedupByKey

\* What holds of the keys: the same, for two variants that both have a SKU
\* or both have none (a SKU of white space only counts as a SKU).
C13_WhenSkuPresenceAgrees ==
    /\ KeysCompared =>
          (EqualNormalized(probe.arg[1], probe.arg[2])
              /\ SkuPresenceAgrees(probe.arg[1], probe.arg[2])
           => probe.out[1] = probe.out[2])
    /\ BuilderReturned =>
          LET pairs == VariantPairs(probe.arg)
              survivors == {i \in 1..Len(pairs) :
                               \A j \in 1..(i - 1) :
                                  ~(EqualNormalized(pairs[j], pairs[i])
                                    /\ SkuPresenceAgrees(pairs[j], pairs[i]))}
          IN Len(pairs) <= MAX_SHOPIFY_VARIANTS =>
                /\ Len(probe.out.variantInputs) = Cardinality(survivors)
                /\ \A i \in survivors :
                      probe.out.variantAssets[Cardinality({j \in survivors : j <= i})].key
                         = buildVariantKey(pairs[i].optionValues, pairs[i].sku)
    /\ DedupByKey


\* mapEbayItemGroup has returned a canonical product.
GroupMapped == probe.fn = "mapEbayItemGroup" /\ probe.done /\ probe.out.ok

\* The named, valued aspects of the members of a group, in member order, and
\* per lower-cased name: its distinct values, where it is first seen, and its
\* spelling there.
Seen(group) ==
    LET items == collectEbayItems(group)
        all == Flatten([i \in 1..Len(items) |-> ItemAspects(items[i])])
    IN SelectSeq(all, LAMBDA a : AspectName(a) # None /\ AspectValue(a) # None)

KeyAt(seen, i) == toLowerCase(AspectName(seen[i]))
KeysSeen(seen) == {KeyAt(seen, i) : i \in 1..Len(seen)}
DistinctValues(seen, key) ==
    Cardinality({AspectValue(seen[i]) : i \in {j \in 1..Len(seen) : KeyAt(seen, j) = key}})
FirstSeen(seen, key) == SetMin({i \in 1..Len(seen) : KeyAt(seen, i) = key})
Spelling(seen, key) == AspectName(seen[FirstSeen(seen, key)])

MayBeOption(seen, key) ==
    /\ DistinctValues(seen, key) > 1
    /\ DistinctValues(seen, key) <= OptionValueLimit
    /\ Len(Spelling(seen, key)) <= OptionNameLimit
    /\ key \notin DeniedOptionNames

Precedes(seen, a, b) ==
    \/ DistinctValues(seen, a) > DistinctValues(seen, b)
    \/ /\ DistinctValues(seen, a) = DistinctValues(seen, b)
       /\ FirstSeen(seen, a) < FirstSeen(seen, b)

\* C14: optionsOrder holds at most three names, each an aspect name with
\* more than one and at most 50 distinct values, at most 30 characters long
\* and not on the deny-list; they are ordered by number of distinct values,
\* largest first, ties by first-seen order, and are the first three in that
\* order of the names that qualify.
C14_OptionsOrder ==
    GroupMapped =>
        LET seen == Seen(probe.arg)
            order == probe.out.payload.optionsOrder
            keys == [i \in 1..Len(order) |-> toLowerCase(order[i])]
        IN /\ Len(order) <= OptionLimit
           /\ \A i \in 1..Len(order) :
                 /\ keys[i] \in KeysSeen(seen)
                 /\ order[i] = Spelling(seen, keys[i])
                 /\ MayBeOption(seen, keys[i])
           /\ \A i, j \in 1..Len(order) : i < j => Precedes(seen, keys[i], keys[j])
           /\ \A key \in KeysSeen(seen) :
                 MayBeOption(seen, key) /\ ~InSeq(key, keys) =>
                    /\ Len(order) = OptionLimit
                    /\ Precedes(seen, keys[OptionLimit], key)

\* A group with four qualifying aspects, two of them with equally many
\* values, was mapped: three were kept.
C14_Witness ==
    /\ GroupMapped
    /\ LET seen == Seen(probe.arg)
           order == probe.out.payload.optionsOrder
       IN /\ Cardinality({key \in KeysSeen(seen) : MayBeOption(seen, key)}) > OptionLimit
          /\ Len(order) = OptionLimit
          /\ DistinctValues(seen, toLowerCase(order[1]))
                > DistinctValues(seen, toLowerCase(order[2]))
          /\ DistinctValues(seen, toLowerCase(order[2]))
                = DistinctValues(seen, toLowerCase(order[3]))
          /\ FirstSeen(seen, toLowerCase(order[2])) > 1


\* The builder has returned the payload of a group that mapEbayItemGroup mapped.
GroupBuilt == BuilderReturned /\ probe.group # Undefined

\* Some aspect of the group varies, and every one that does is deny-listed.
OnlyDeniedVary(seen) ==
    /\ \E key \in KeysSeen(seen) : DistinctValues(seen, key) > 1
    /\ \A key \in KeysSeen(seen) : DistinctValues(seen, key) > 1 => key \in DeniedOptionNames

DefaultPair == [optionName |-> DEFAULT_OPTION_NAME, name |-> DEFAULT_OPTION_VALUE]

\* C15: a group whose only varying aspects are on the deny-list is mapped
\* with an empty optionsOrder; the builder then synthesizes the one option
\* Title with the one value Default Title, and every variant input carries
\* exactly that pair.
C15_DeniedOnlyGetsDefaultOption ==
    GroupBuilt /\ OnlyDeniedVary(Seen(probe.group)) =>
        /\ probe.arg.optionsOrder = <<>>
        /\ \A i \in 1..Len(probe.arg.variants) : probe.arg.variants[i].options = <<>>
        /\ probe.out.productInput.productOptions
              = <<[name |-> DEFAULT_OPTION_NAME, position |-> 1,
                   values |-> <<DEFAULT_OPTION_VALUE>>]>>
        /\ \A i \in 1..Len(probe.out.variantInputs) :
              probe.out.variantInputs[i].optionValues = <<DefaultPair>>

\* Such a group, with an aspect that does not vary beside the denied one, was
\* built into a payload of several variants.
C15_Witness ==
    /\ GroupBuilt
    /\ OnlyDeniedVary(Seen(probe.group))
    /\ Cardinality(KeysSeen(Seen(probe.group))) > 1
    /\ Len(probe.out.variantInputs) > 1
    /\ probe.out.variantInputs[2].optionValues = <<DefaultPair>>


\* The calls an iteration made to the platform.
PlatformCalls(calls) == SelectSeq(calls, LAMBDA c : c.op \in PlatformOps)

\* The iteration went through every step: the product, and the variants after
\* it, were created and no call failed.
EveryStepSucceeded(e) ==
    /\ \A k \in 1..Len(e.calls) : e.calls[k].op \in PlatformOps => e.calls[k].ok
    /\ \E k \in 1..Len(e.calls) : e.calls[k].op = "variants"

\* The number of variants the cap drops from a canonical product: those
\* beyond the first 100 distinct keys.
DroppedBy(product) ==
    IF Len(product.variants) <= MAX_SHOPIFY_VARIANTS THEN 0
    ELSE LET keys == ProductKeys(product)
             k == Cardinality({keys[i] : i \in 1..Len(product.variants)})
         IN IF k > MAX_SHOPIFY_VARIANTS THEN k - MAX_SHOPIFY_VARIANTS ELSE 0

\* C16: when variants were dropped by the cap and every step succeeded, the
\* result is created and its error field carries the warning with the number
\* of dropped variants.
C16_DroppedVariantsWarned ==
    \A i \in 1..Len(recorded) :
        LET e == recorded[i]
        IN EveryStepSucceeded(e) =>
              LET dropped == DroppedBy(e.payload)
              IN dropped > 0 =>
                    /\ e.r.status = "created"
                    /\ e.r.error.text = DroppedWarning
                    /\ e.r.error.skipped = dropped
                    /\ e.r.productId # 0

\* A group of more than 100 distinct variants was imported, every call
\* succeeding.
C16_Witness ==
    \E i \in 1..Len(recorded) :
        /\ EveryStepSucceeded(recorded[i])
        /\ DroppedBy(recorded[i].payload) = MaxVariants - MAX_SHOPIFY_VARIANTS
        /\ recorded[i].r.variants = MAX_SHOPIFY_VARIANTS
        /\ recorded[i].r.status = "created"
        /\ recorded[i].r.error.text = DroppedWarning


\* The handler p is at its idx-th URL (or past the last) and the results of
\* all URLs before it are in its results, in order, and are the newest
\* entries of the history, newest first.
EarlierRecorded(p) ==
    LET l == h[p]
        done == l.idx - 1
    IN /\ Len(l.results) = done
       /\ done <= Len(importedCache)
       /\ \A j \in 1..done :
             /\ l.results[j].sourceUrl = l.urls[j]
             /\ importedCache[done + 1 - j] = l.results[j]

\* The calls of the URL the handler p is at, after a step: the log of the
\* iteration, wherever the step left it.
CallsAfter(p) ==
    IF Len(recorded') > Len(recorded) THEN recorded'[Len(recorded')].calls ELSE h'[p].calls

\* C17: the URLs of a batch are processed one after the other: whenever the
\* handler is at a URL, the result of every earlier URL of the batch is in the
\* results and in the history, so no call for a URL is made before that; and
\* a step makes at most one remote call for the batch, the one its handler
\* awaits.
C17_Sequential ==
    /\ [](\A p \in Procs : h[p].pc # "idle" => EarlierRecorded(p))
    /\ [][\A p \in Procs :
             h[p].pc # "idle" /\ h'[p] # h[p] =>
                /\ Len(CallsAfter(p)) - Len(h[p].calls) \in {0, 1}
                /\ SubSeq(CallsAfter(p), 1, Len(h[p].calls)) = h[p].calls
                /\ Len(CallsAfter(p)) > Len(h[p].calls) =>
                      /\ h[p].idx \in 1..Len(h[p].urls)
                      /\ EarlierRecorded(p)
                /\ h'[p].idx \in {h[p].idx, h[p].idx + 1}
                /\ h'[p].idx = h[p].idx + 1 =>
                      /\ h'[p].results = Append(h[p].results, importedCache'[1])
                      /\ Len(recorded') = Len(recorded) + 1
                      /\ h'[p].calls = <<>>]_vars

\* A call for the third URL of a batch has been made, the results of the
\* first two being recorded.
C17_Witness ==
    \E p \in Procs :
        /\ h[p].pc \notin {"idle", "loop"}
        /\ h[p].idx = 3
        /\ h[p].calls # <<>>
        /\ Len(h[p].results) = 2
        /\ importedCache[1] = h[p].results[2]
        /\ importedCache[2] = h[p].results[1]


\* The URL of a recorded iteration has an identifier and no call made for it
\* failed.
AllCallsSucceeded(e) ==
    /\ parseNumericTail(e.r.sourceUrl) # None
    /\ \A k \in 1..Len(e.calls) : e.calls[k].ok

Creations(e) == SelectSeq(e.calls, LAMBDA c : c.op = "create")

\* C18: importing is not idempotent: when the same URL is imported twice, in
\* one batch or in two, and all calls succeed, each import makes its own
\* productCreate call, the two results carry different product ids, and the
\* history holds an entry for each.
C18_NotIdempotent ==
    \A i, j \in 1..Len(recorded) :
        /\ i < j
        /\ recorded[i].r.sourceUrl = recorded[j].r.sourceUrl
        /\ AllCallsSucceeded(recorded[i])
        /\ AllCallsSucceeded(recorded[j])
        => /\ Len(Creations(recorded[i])) = 1
           /\ Len(Creations(recorded[j])) = 1
           /\ EveryStepSucceeded(recorded[i])
           /\ EveryStepSucceeded(recorded[j])
           /\ recorded[i].r.status = "created"
           /\ recorded[j].r.status = "created"
           /\ recorded[i].r.productId = Creations(recorded[i])[1].body.id
           /\ recorded[j].r.productId = Creations(recorded[j])[1].body.id
           /\ recorded[i].r.productId # recorded[j].r.productId
           /\ shop >= 2
           /\ Len(importedCache) = Len(recorded)
           /\ importedCache[Len(recorded) + 1 - i] = recorded[i].r
           /\ importedCache[Len(recorded) + 1 - j] = recorded[j].r

\* One URL was imported three times, at least once in a request after the
\* one of the first import, all calls succeeding: three products.
C18_Witness ==
    /\ Len(recorded) = 3
    /\ \A i \in 1..3 :
          /\ recorded[i].r.sourceUrl = recorded[1].r.sourceUrl
          /\ AllCallsSucceeded(recorded[i])
          /\ recorded[i].r.productId = i
    /\ \E p \in Procs : h[p].pc # "idle" /\ Len(h[p].results) \in 1..2


\* parseNumericTail has returned.
Parsed == probe.fn = "parseNumericTail" /\ probe.done

\* The length of the longest run of digits that ends the path p, and of the
\* longest one that starts at position i.
TrailingRun(p) ==
    CHOOSE k \in 0..Len(p) :
        /\ \A i \in (Len(p) - k + 1)..Len(p) : p[i] \in Digit
        /\ k < Len(p) => p[Len(p) - k] \notin Digit
RunAt(p, i) ==
    CHOOSE n \in 0..(Len(p) - i + 1) :
        /\ \A j \in i..(i + n - 1) : p[j] \in Digit
        /\ i + n <= Len(p) => p[i + n] \notin Digit

\* The positions right after an "/itm/" of p that is followed by at least
\* nine digits.
ItmSegments(p) ==
    {i \in (Len(ItmPrefix) + 1)..Len(p) :
        /\ SubSeq(p, i - Len(ItmPrefix), i - 1) = ItmPrefix
        /\ RunAt(p, i) >= MinTailDigits}

EndsInId(u) == u.abs /\ TrailingRun(u.pathname) >= MinTailDigits

\* C19 as stated: a URL whose path ends in a run of at least nine digits
\* yields exactly that run; every other URL, and a malformed one, yields none.
C19_TailOrNone ==
    Parsed =>
        LET p == probe.arg.pathname
        IN IF EndsInId(probe.arg)
           THEN probe.out = SubSeq(p, Len(p) - TrailingRun(p) + 1, Len(p))
           ELSE probe.out = None

\* C19, amended: a URL whose path ends in a run of at least nine digits
\* yields exactly that run; otherwise a path that holds "/itm/" followed by at
\* least nine digits yields the digits after the first such "/itm/"; every
\* other URL, and a malformed one, yields none.
C19_TailElseItmSegment ==
    Parsed =>
        LET p == probe.arg.pathname
        IN IF EndsInId(probe.arg)
           THEN probe.out = SubSeq(p, Len(p) - TrailingRun(p) + 1, Len(p))
           ELSE IF probe.arg.abs /\ ItmSegments(p) # {}
           THEN \E i \in ItmSegments(p) :
                   /\ \A j \in ItmSegments(p) : i <= j
                   /\ probe.out = SubSeq(p, i, i + RunAt(p, i) - 1)
           ELSE probe.out = None

\* A path that does not end in digits but holds "/itm/" and an identifier
\* was parsed: the identifier is returned.
C19_Witness ==
    /\ Parsed
    /\ probe.arg.abs
    /\ TrailingRun(probe.arg.pathname) = 0
    /\ ItmSegments(probe.arg.pathname) # {}
    /\ Len(probe.out) = MinTailDigits + 1


\* The item ids the direct fetch has to try, in order, given the identifiers
\* the page gave (Null if it gave none): the scraped item id, v1|<scraped
\* legacy id>|0, v1|<numeric tail>|0, the numeric tail; absent ones left out,
\* equal ones once.
Preferred(scraped, numeric) ==
    Dedup(SelectSeq(<<IF scraped # Null THEN scraped.itemId ELSE None,
                      IF scraped # Null /\ scraped.legacyItemId # None
                      THEN <<"v", "1", "|">> \o scraped.legacyItemId \o <<"|", "0">>
                      ELSE None,
                      <<"v", "1", "|">> \o numeric \o <<"|", "0">>,
                      numeric>>,
                    LAMBDA id : id # None))

ItemFetches(rs) == SelectSeq(rs, LAMBDA c : c.op = "item")

\* The item fetches of an iteration are the first of the preferred ids, in
\* order.
InPreferredOrder(it) ==
    LET rs == Resolution(it.calls)
        fetched == ItemFetches(rs)
        preferred == Preferred(ScrapedBefore(rs, Len(rs) + 1), it.numeric)
    IN /\ Len(fetched) <= Len(preferred)
       /\ \A k \in 1..Len(fetched) : fetched[k].id = preferred[k]

\* C20: an item fetch is made only when every earlier attempt failed; the
\* item ids are tried in the order of preference, absent ones skipped, equal
\* ones once; a successful item fetch is the last attempt, and isGroup is
\* false after it.
C20_ItemFetchLastResort ==
    \A it \in Iterations :
        LET as == Attempts(it.calls)
        IN /\ \A k \in 1..Len(as) :
                 as[k].op = "item" => \A j \in 1..(k - 1) : ~as[j].ok
           /\ InPreferredOrder(it)
           /\ \A k \in 1..Len(as) : as[k].op = "item" /\ as[k].ok => k = Len(as)
           /\ Len(as) > 0 /\ as[Len(as)].op = "item" /\ as[Len(as)].ok => ~it.isGroup

\* What holds of the item fetch: the same, with an attempt counted as
\* successful when it returned a payload.
C20_WhenSuccessIsAPayload ==
    \A it \in Iterations :
        LET as == Attempts(it.calls)
            Returned(c) == c.ok /\ c.body # Null
        IN /\ \A k \in 1..Len(as) :
                 as[k].op = "item" => \A j \in 1..(k - 1) : ~Returned(as[j])
           /\ InPreferredOrder(it)
           /\ \A k \in 1..Len(as) : as[k].op = "item" /\ Returned(as[k]) => k = Len(as)
           /\ Len(as) > 0 /\ as[Len(as)].op = "item" /\ as[Len(as)].ok => ~it.isGroup
           /\ it \in {[calls |-> recorded[i].calls, numeric |-> recorded[i].r.legacyItemId,
                       isGroup |-> recorded[i].isGroup, recovering |-> recorded[i].recovering,
                       itemOrGroup |-> recorded[i].itemOrGroup] : i \in 1..Len(recorded)}
              /\ it.recovering
              /\ (\A k \in 1..Len(as) : ~Returned(as[k]))
              => Len(ItemFetches(as))
                    = Len(Preferred(ScrapedBefore(Resolution(it.calls),
                                                  Len(Resolution(it.calls)) + 1),
                                    it.numeric))


\* The place of a platform call in the order of the calls of one URL.
StepOf(op) ==
    CASE op = "create" -> 1 [] op = "media" -> 2 [] op = "variants" -> 3 [] OTHER -> 4

\* The platform calls of one URL come in order, each at most once, the
\* product first and the variants before any association; none follows a
\* failed one.
PlatformOrder(calls) ==
    LET ps == PlatformCalls(calls)
    IN /\ \A i, j \in 1..Len(ps) : i < j => StepOf(ps[i].op) < StepOf(ps[j].op)
       /\ ps # <<>> => ps[1].op = "create"
       /\ \A j \in 1..Len(ps) :
             ps[j].op = "append" => \E i \in 1..(j - 1) : ps[i].op = "variants"
       /\ \A i \in 1..(Len(ps) - 1) : ps[i].ok

\* The images of a payload: the first image of each variant asset, and the
\* images of the product.
FirstImages(built) ==
    {built.variantAssets[i].imageUrls[1] :
        i \in {j \in 1..Len(built.variantAssets) : built.variantAssets[j].imageUrls # <<>>}}
    \ {""}
AllImages(built, payload) ==
    FirstImages(built) \cup ({payload.imageUrls[i] : i \in 1..Len(payload.imageUrls)} \ {""})

\* The list handed to productCreateMedia: no image twice, the variants'
\* first images before the others, at most 100, and none left out while
\* there is room.
MediaListOf(l) ==
    LET media == l.mediaInputs
        all == AllImages(l.built, l.payload)
        firsts == FirstImages(l.built)
    IN /\ Len(media) = Min(Cardinality(all), MEDIA_UPLOAD_LIMIT)
       /\ \A i \in 1..Len(media) : media[i].originalSource \in all
       /\ \A i, j \in 1..Len(media) :
             i < j => media[i].originalSource # media[j].originalSource
       /\ \A i, j \in 1..Len(media) :
             media[j].originalSource \in firsts /\ media[i].originalSource \notin firsts
             => j < i
       /\ \A i \in 1..Len(media) :
             media[i].originalSource \notin firsts =>
                \A u \in firsts : \E j \in 1..(i - 1) : media[j].originalSource = u

\* C21: the platform calls of a URL occur in the order productCreate,
\* productCreateMedia, productVariantsBulkCreate, productVariantAppendMedia,
\* each at most once, and none after a failed one; productCreateMedia is
\* called exactly when there is an image, with a list that has no image twice,
\* each variant's first image before the remaining product images, and at
\* most 100 entries; productVariantAppendMedia is called only with a queued
\* association.
C21_PlatformCallsInOrder ==
    /\ \A i \in 1..Len(recorded) : PlatformOrder(recorded[i].calls)
    /\ \A p \in UnderWay :
          LET l == h[p]
              ps == PlatformCalls(l.calls)
              made == {ps[i].op : i \in 1..Len(ps)}
          IN /\ PlatformOrder(l.calls)
             /\ l.pc = "media" =>
                   /\ made = {"create"}
                   /\ l.mediaInputs # <<>>
                   /\ MediaListOf(l)
             /\ l.pc = "variants" =>
                   /\ "create" \in made /\ "variants" \notin made
                   /\ ("media" \in made) <=> (AllImages(l.built, l.payload) # {})
             /\ l.pc = "append" =>
                   /\ "variants" \in made /\ "append" \notin made
                   /\ l.variantMediaPayload # <<>>

\* productCreateMedia is about to be called with 100 images, the first
\* images of the 100 variants, of a product that has more.
C21_Witness ==
    \E p \in UnderWay :
        /\ h[p].pc = "media"
        /\ Len(h[p].mediaInputs) = MEDIA_UPLOAD_LIMIT
        /\ Cardinality(AllImages(h[p].built, h[p].payload)) > MEDIA_UPLOAD_LIMIT
        /\ Cardinality(FirstImages(h[p].built)) = MEDIA_UPLOAD_LIMIT


\* The images of the variant asset k of a payload that were uploaded: the
\* media call succeeded and the image was on its list.
UploadedOf(e, built, k) ==
    IF \E c \in 1..Len(e.calls) : e.calls[c].op = "media" /\ e.calls[c].ok
    THEN LET media == mediaInputsOf(built, e.payload)
         IN {u \in {built.variantAssets[k].imageUrls[i] :
                       i \in 1..Len(built.variantAssets[k].imageUrls)} :
                \E i \in 1..Len(media) : media[i].originalSource = u}
    ELSE {}

\* C22: after the variants are created, every created variant with images
\* that were uploaded as media gets an association with the media of exactly
\* those images, all associations going out in one productVariantAppendMedia
\* call; no variant is associated with media of an image that is not its own.
C22_VariantsGetTheirMedia ==
    /\ \A i \in 1..Len(recorded) :
          LET e == recorded[i]
          IN EveryStepSucceeded(e) =>
                LET built == buildShopifyProductInputFromEbay(e.payload)
                    appends == SelectSeq(e.calls, LAMBDA c : c.op = "append")
                IN /\ Len(appends) <= 1
                   /\ (\E k \in 1..Len(built.variantAssets) : UploadedOf(e, built, k) # {})
                      => Len(appends) = 1
    /\ \A p \in UnderWay :
          h[p].pc = "append" =>
             \A a \in 1..Len(h[p].variantMediaPayload) :
                LET entry == h[p].variantMediaPayload[a]
                    own == h[p].built.variantAssets[entry.variantId].imageUrls
                IN /\ entry.mediaIds # <<>>
                   /\ \A m \in 1..Len(entry.mediaIds) :
                         \E u \in 1..Len(own) :
                            MediaIdOf(h[p].mediaIdByUrl, own[u]) = entry.mediaIds[m]
                   /\ \A m, n \in 1..Len(entry.mediaIds) :
                         m < n => entry.mediaIds[m] # entry.mediaIds[n]

\* What the code does: no URL is ever at, or past, a call of
\* productVariantAppendMedia, because the media productCreateMedia returns
\* carry no id and mediaIdByUrl stays empty.
C22_NoAssociationEver ==
    /\ \A p \in Procs : h[p].pc # "append" /\ Field(h[p], "mediaIdByUrl", <<>>) \in {<<>>, Undefined}
    /\ \A i \in 1..Len(recorded) :
          \A c \in 1..Len(recorded[i].calls) : recorded[i].calls[c].op # "append"


\* The handler p has accepted a batch of n URLs; it has answered a batch of n
\* URLs with one result per URL, in order.
Accepted(p, n) == h[p].pc = "loop" /\ h[p].idx = 1 /\ Len(h[p].urls) = n
Completed(p, n) ==
    /\ h[p].pc = "idle"
    /\ Len(h[p].urls) = n
    /\ h[p].response.status = 200
    /\ Len(h[p].response.results) = n
    /\ \A j \in 1..n : h[p].response.results[j].sourceUrl = h[p].urls[j]

\* C23: if every remote call eventually returns, every accepted batch
\* eventually completes: the response is returned with exactly one result for
\* each URL of the list, whatever failed on the way.
C23_BatchCompletes ==
    \A p \in Procs : \A n \in 1..MaxImports : Accepted(p, n) ~> Completed(p, n)

\* A batch was answered whose first URL failed and whose last URL was
\* imported.
C23_Witness ==
    \E p \in Procs :
        /\ Completed(p, MaxImports)
        /\ h[p].response.results[1].status = "failed"
        /\ h[p].response.results[MaxImports].status = "created"

\* The history after the first n recorded results: the latest ones, newest
\* first, at most HISTORY_LIMIT of them.
HistoryAfter(n) ==
    [i \in 1..Min(n, HISTORY_LIMIT) |-> recorded[n - i + 1].r]

\* A step that finishes a URL of the handler p: its results grow by one.
Finishes(p) == Len(h'[p].results) = Len(h[p].results) + 1

\* C24: with two batches in flight, interleaving at their awaits, and the
\* history read at any point: the history never holds more than 50 entries and
\* is the results in the order their URLs finished, newest first; a read
\* returns the history as it was after some URL finished; and a result enters
\* the history exactly when its URL finishes, once, at the front.
C24_HistoryUnderConcurrency ==
    /\ [](/\ Len(importedCache) <= HISTORY_LIMIT
          /\ importedCache = HistoryAfter(Len(recorded))
          /\ \/ lastGet.items = <<>>
             \/ \E n \in 1..Len(recorded) :
                   /\ recorded[n].r = lastGet.items[1]
                   /\ lastGet.items = HistoryAfter(n))
    /\ [][/\ \A p \in Procs : Finishes(p) =>
                /\ Len(recorded') = Len(recorded) + 1
                /\ importedCache'[1] = h'[p].results[Len(h'[p].results)]
                /\ importedCache'[1] = recorded'[Len(recorded')].r
                /\ \A i \in 2..Len(importedCache') : importedCache'[i] = importedCache[i - 1]
          /\ importedCache' # importedCache => \E p \in Procs : Finishes(p)]_vars

\* Both handlers are in flight, more than 50 URLs have finished, the history
\* is full, a URL of the second request finished before a URL of the first,
\* and a read returned an earlier history.
C24_Witness ==
    /\ \A p \in Procs : h[p].pc # "idle"
    /\ Len(recorded) > HISTORY_LIMIT
    /\ Len(importedCache) = HISTORY_LIMIT
    /\ \E i, j \in 1..Len(recorded) :
          /\ i < j
          /\ InSeq(recorded[i].r.sourceUrl, h[2].urls)
          /\ InSeq(recorded[j].r.sourceUrl, h[1].urls)
    /\ lastGet.items # <<>>
    /\ lastGet.items # importedCache

\* The attempts of an iteration that returned a payload, in call order.
Payloads(calls) == SelectSeq(Attempts(calls), LAMBDA c : c.ok /\ c.body # Null)

\* The endpoint that returned the payload resolution ended with.
ReturnedBy(calls) == Payloads(calls)[Len(Payloads(calls))].op

\* The iterations whose resolution has ended with a payload: the recorded
\* ones and those at line 185 or beyond.
Resolved ==
    {[calls |-> recorded[i].calls, isGroup |-> recorded[i].isGroup] :
        i \in {j \in 1..Len(recorded) : Truthy(recorded[j].itemOrGroup)}}
    \cup {[calls |-> h[p].calls, isGroup |-> h[p].isGroup] :
            p \in {q \in Procs : h[q].pc \in PlatformOps \cup {"resolved", "regroup"}
                                 /\ Truthy(h[q].itemOrGroup)}}

\* C25: whenever resolution ends with a payload, isGroup is true exactly when
\* a group endpoint returned that payload and false exactly when the legacy
\* or the item lookup returned it, whatever the earlier attempts answered.
C25_FlagMatchesEndpoint ==
    \A e \in Resolved :
        /\ Payloads(e.calls) # <<>>
        /\ e.isGroup <=> ReturnedBy(e.calls) \in GroupOps

\* The flag is wrong only one way: it is still true when the legacy lookup
\* returned the payload after a group endpoint had answered with no body.
C25_StaleOnlyAfterNullGroupAnswer ==
    \A e \in Resolved :
        /\ Payloads(e.calls) # <<>>
        /\ \/ e.isGroup <=> ReturnedBy(e.calls) \in GroupOps
           \/ /\ e.isGroup
              /\ ReturnedBy(e.calls) = "legacy"
              /\ \E k \in 1..Len(e.calls) :
                    /\ e.calls[k].op \in GroupOps
                    /\ e.calls[k].ok
                    /\ e.calls[k].body = Null

\* The variant input carries one value per product option, in the order of
\* the options, each under the name of its option.
OnePerOption(input, productOptions) ==
    /\ Len(input.optionValues) = Len(productOptions)
    /\ \A k \in 1..Len(productOptions) :
          input.optionValues[k].optionName = productOptions[k].name

\* C26: in every platform payload each variant input has exactly one option
\* value per product option, and that value is one of the values
\* productInput.productOptions lists for the option, also for a variant that
\* lacks the aspect and receives the fallback value.
C26_OptionValuesListed ==
    GroupBuilt =>
        LET productOptions == probe.out.productInput.productOptions
        IN \A i \in 1..Len(probe.out.variantInputs) :
              /\ OnePerOption(probe.out.variantInputs[i], productOptions)
              /\ \A k \in 1..Len(productOptions) :
                    InSeq(probe.out.variantInputs[i].optionValues[k].name,
                          productOptions[k].values)

\* Each variant input has one value per product option, and the value is
\* listed for the option unless it is the fallback value of an option some
\* other variant has a value for.
C26_ListedOrFallback ==
    BuilderReturned =>
        LET productOptions == probe.out.productInput.productOptions
        IN \A i \in 1..Len(probe.out.variantInputs) :
              /\ OnePerOption(probe.out.variantInputs[i], productOptions)
              /\ \A k \in 1..Len(productOptions) :
                    \/ InSeq(probe.out.variantInputs[i].optionValues[k].name,
                             productOptions[k].values)
                    \/ /\ probe.out.variantInputs[i].optionValues[k].name
                             = fallbackOptionValue(productOptions[k].name)
                       /\ \E v \in 1..Len(probe.arg.variants) :
                             HasOption(probe.arg.variants[v].options, productOptions[k].name)

\* The re-fetch of line 188 was made and failed.
RefetchFailed(calls) ==
    \E k \in 1..Len(calls) : calls[k].op = "refetch_item_group" /\ ~calls[k].ok

\* C27: when the resolved single item names its group and the fetch of that
\* group at line 188 fails, the URL is recorded as failed with the error of
\* the fetch, the fetch is its last call, no platform call is made, and no
\* payload is mapped from the single item instead.
C27_RefetchFailureFailsUrl ==
    /\ \A i \in 1..Len(recorded) :
          LET e == recorded[i]
          IN RefetchFailed(e.calls) =>
                /\ DeclaresGroup(e.itemOrGroup)
                /\ ~e.isGroup
                /\ e.calls[Len(e.calls)].op = "refetch_item_group"
                /\ e.r.status = "failed"
                /\ e.r.error.text = e.calls[Len(e.calls)].err.text
                /\ PlatformCalls(e.calls) = <<>>
                /\ e.payload = Undefined
    /\ \A p \in UnderWay : ~RefetchFailed(h[p].calls)

\* A URL whose single item named its group, and whose re-fetch failed, is
\* recorded.
C27_Witness ==
    \E i \in 1..Len(recorded) :
        /\ RefetchFailed(recorded[i].calls)
        /\ DeclaresGroup(recorded[i].itemOrGroup)
        /\ recorded[i].r.status = "failed"

\* The k-th call is a group endpoint answering with a payload that holds no
\* items in any of its three lists.
EmptyGroupAnswer(calls, k) ==
    /\ calls[k].op \in GroupOps
    /\ calls[k].ok
    /\ calls[k].body # Null
    /\ collectEbayItems(normalizeGroupResponse(calls[k].body)) = <<>>

\* The k-th call ended resolution as a group: no resolution call follows it,
\* the flag is set and the payload is the normalized answer.
EndedAsGroup(calls, k, isGroup, itemOrGroup) ==
    /\ \A j \in (k + 1)..Len(calls) : calls[j].op \notin ResolutionOps
    /\ isGroup
    /\ itemOrGroup = normalizeGroupResponse(calls[k].body)

\* C28: a group endpoint that answers successfully with a payload holding no
\* items is the first success: resolution stops there with isGroup true, no
\* later candidate is attempted, and the URL fails with the missing-items
\* error, not with the log of exhausted attempts.
C28_EmptyGroupIsFirstSuccess ==
    /\ \A i \in 1..Len(recorded) :
          LET e == recorded[i]
          IN \A k \in 1..Len(e.calls) :
                EmptyGroupAnswer(e.calls, k) =>
                   /\ EndedAsGroup(e.calls, k, e.isGroup, e.itemOrGroup)
                   /\ k = Len(e.calls)
                   /\ e.r.status = "failed"
                   /\ e.r.error.text = MissingItems
                   /\ e.r.error.notes = <<>>
    /\ \A p \in UnderWay :
          \A k \in 1..Len(h[p].calls) :
             EmptyGroupAnswer(h[p].calls, k) =>
                /\ EndedAsGroup(h[p].calls, k, h[p].isGroup, h[p].itemOrGroup)
                /\ h[p].pc = "resolved"

\* A URL whose first lookup failed and whose group endpoint then answered a
\* group without members is recorded with the missing-items error.
C28_Witness ==
    \E i \in 1..Len(recorded) :
        LET e == recorded[i]
        IN /\ Len(e.calls) >= 2
           /\ ~e.calls[1].ok
           /\ EmptyGroupAnswer(e.calls, Len(e.calls))
           /\ e.r.error.text = MissingItems

====
